---- MODULE Spec2Model ----
(***************************************************************************)
(* Borehole-trajectory pipeline of report_drill_mitsui-v2: the legacy VTK  *)
(* ASCII writers (VTKConverter, VTKGenerator), the library-free reader     *)
(* (VTKSimpleRenderer), the survey-point calculator, the coordinate        *)
(* calculator and trajectory builder of the converter, its file naming,    *)
(* and the batch generation loop of the dashboard.                         *)
(*                                                                         *)
(* Specifications: Spec (writers and reader), SurveySpec (survey points),  *)
(* LmrSpec (the methods of the converter and its calculator), NameSpec     *)
(* (generate_vtk_filename), BatchSpec (the batch loop), PageSpec (the VTK  *)
(* page: survey point, then the batch, in a session), ReaderSpec (one      *)
(* reader parsing several files), GeneratorSpec (create_from_dataframe)    *)
(* and NoiseSpec (process_multiple_files, parallel and sequential).        *)
(*                                                                         *)
(* Text is modelled at the level the code works on it: a file is a         *)
(* sequence of lines, a line is a sequence of whitespace-delimited tokens, *)
(* a token is a sequence of characters.  A keyword or name (POINTS, float, *)
(* Energy, ...) is kept as one symbol; a numeric literal is spelled out    *)
(* character by character, so that formatting and parsing are real         *)
(* conversions.  A float is held as a whole number of tenths (15 is 1.5).  *)
(***************************************************************************)
EXTENDS Integers, Sequences, FiniteSets, TLC

VARIABLES
    VTK_AVAILABLE,  \* vtk_converter.py:16-22, the import probe
    file,           \* what is stored at the VTK output path
    origin,         \* who stored it there, and from which arguments
    ret,            \* the last call and its outcome
    points,         \* VTKSimpleRenderer.points
    lines,          \* VTKSimpleRenderer.lines
    scalars,        \* VTKSimpleRenderer.scalars, in insertion order
    survey_point_str,   \* the survey-point text entered in the dashboard
    survey,             \* what parse_survey_point made of it
    survey_calc,        \* the SurveyPointCalculator: its reference point, factor and reference_value
    survey_given,       \* the survey point handed to format_survey_point, if any
    survey_distance,    \* what calculate_distance_from_entrance returned, if called
    shown,              \* what the settings block of the page shows for the survey point
    entry,              \* which display_vtk_generation runs: "app" (app.py) or "ui" (src/ui/vtk.py)
    data_source,        \* file name -> data frame
    selected_files,     \* the files chosen for the batch, in the order shown
    distance_from_entrance,
    pc,                 \* "idle" before the generate button is pressed, "loop" in
                        \* the loop over the selected files, "done" after it
    idx,                \* the position of the loop in selected_files
    success_files,      \* the handler's three collections
    error_files,
    generated_files,
    temp_files,         \* the temporary CSV files that exist
    output,             \* the output directory: path -> document
    generated_vtk_files, \* the session's record of the last successful batch
    converter,          \* the session's VTKConverter: Z_ELEVATIONS and its calculator
    coords_log,         \* the calls of calculate_coordinates made so far, with their results
    lmr_ret,            \* the last call of a method of the converter and what it returned
    data_dict,          \* process_multiple_files: the files and their frames, in dict order
    use_parallel,
    futures,            \* the tasks submitted and not yet completed
    individual_results, \* the results kept, in the order they were inserted
    combined_data,
    noise_pc            \* "start", "parallel" while tasks are awaited, "collected", "done"

vtkVars == <<VTK_AVAILABLE, file, origin, ret, points, lines, scalars>>
surveyVars == <<survey_point_str, survey, survey_calc, survey_given, survey_distance, shown>>
batchVars == <<entry, data_source, selected_files, distance_from_entrance, pc, idx,
               success_files, error_files, generated_files, temp_files, output,
               generated_vtk_files>>
lmrVars == <<converter, coords_log, lmr_ret>>
noiseVars == <<data_dict, use_parallel, futures, individual_results, combined_data, noise_pc>>
vars == <<vtkVars, surveyVars, batchVars, lmrVars, noiseVars>>

(***************************************************************************)
(* Bounds of the model.                                                    *)
(***************************************************************************)
MaxPoints == 2        \* longest point list handed to a writer
MaxScalars == 2       \* longest scalar list handed to a writer

MaxRawPoints == 2     \* most points in a file that some other tool wrote
MaxTextLen == 4       \* longest survey-point text
MaxRows == 3          \* most rows in a data frame of the batch

\* Coordinates and scalar values, in tenths.
PointSet == { <<0, 0, 173>>, <<-15, 120, 213>> }
EnergyCycle == << 0, -25, 1005 >>

RECURSIVE SeqsUpTo(_, _)
SeqsUpTo(S, n) ==
    IF n = 0 THEN { <<>> }
    ELSE LET shorter == SeqsUpTo(S, n - 1)
         IN  shorter \cup { Append(s, x) : s \in { t \in shorter : Len(t) = n - 1 }, x \in S }

RECURSIVE Flatten(_)
Flatten(ss) == IF ss = <<>> THEN <<>> ELSE Head(ss) \o Flatten(Tail(ss))

Min(a, b) == IF a < b THEN a ELSE b
Abs(v) == IF v < 0 THEN -v ELSE v

(***************************************************************************)
(* Characters, tokens and numeric literals.                                *)
(***************************************************************************)
DigitChars == <<"0", "1", "2", "3", "4", "5", "6", "7", "8", "9">>
Digits == { DigitChars[i] : i \in 1..10 }
DigitVal(c) == CHOOSE d \in 0..9 : DigitChars[d + 1] = c
IsDigits(s) == \A i \in 1..Len(s) : s[i] \in Digits

W(word) == << word >>      \* a keyword or name, one symbol

RECURSIVE FormatInt(_)
\* str(n) / f"{n}" of a non-negative int
FormatInt(n) ==
    IF n < 10 THEN << DigitChars[n + 1] >>
    ELSE Append(FormatInt(n \div 10), DigitChars[(n % 10) + 1])

\* f"{x}" of a Python float: repr, which always shows a fractional part
FormatFloat(v) ==
    (IF v < 0 THEN << "-" >> ELSE << >>)
        \o FormatInt(Abs(v) \div 10) \o << "." >> \o << DigitChars[(Abs(v) % 10) + 1] >>

\* the "%g" style of the library's ASCII writer: no fractional part when it is zero
FormatG(v) ==
    (IF v < 0 THEN << "-" >> ELSE << >>)
        \o FormatInt(Abs(v) \div 10)
        \o (IF Abs(v) % 10 = 0 THEN << >> ELSE << ".", DigitChars[(Abs(v) % 10) + 1] >>)

RECURSIVE DigitsValue(_)
DigitsValue(s) ==
    IF s = <<>> THEN 0
    ELSE 10 * DigitsValue(SubSeq(s, 1, Len(s) - 1)) + DigitVal(s[Len(s)])

Unsigned(s) == IF s # <<>> /\ s[1] \in {"-", "+"} THEN Tail(s) ELSE s
Negative(s) == s # <<>> /\ s[1] = "-"
DotAt(s) == IF \E i \in 1..Len(s) : s[i] = "."
            THEN CHOOSE i \in 1..Len(s) : s[i] = "." /\ \A j \in 1..(i - 1) : s[j] # "."
            ELSE 0

RECURSIVE Pow10(_)
Pow10(k) == IF k = 0 THEN 1 ELSE 10 * Pow10(k - 1)

\* float(s) of a text without surrounding blanks:
\* [sign] digits [ "." [digits] ] | [sign] "." digits, the value in units of
\* 10^-places.  A literal with more than `places` fractional digits is outside
\* the model; the inputs of the model never hold one.
ParseDecimal(tok, places) ==
    LET u == Unsigned(tok)
        d == DotAt(u)
        ip == IF d = 0 THEN u ELSE SubSeq(u, 1, d - 1)
        fp == IF d = 0 THEN <<>> ELSE SubSeq(u, d + 1, Len(u))
        good == /\ IsDigits(ip) /\ IsDigits(fp)
                /\ Len(ip) + Len(fp) > 0
                /\ Len(fp) <= places
        mag == Pow10(places) * DigitsValue(ip) + Pow10(places - Len(fp)) * DigitsValue(fp)
    IN  IF good THEN [ok |-> TRUE, val |-> IF Negative(tok) THEN -mag ELSE mag]
        ELSE [ok |-> FALSE, val |-> 0]          \* ValueError

\* float(tok) of a token of a VTK file, in tenths
ParseFloat(tok) == ParseDecimal(tok, 1)

\* int(tok): [sign] digits
ParseInt(tok) ==
    LET u == Unsigned(tok)
    IN  IF u # <<>> /\ IsDigits(u)
        THEN [ok |-> TRUE, val |-> IF Negative(tok) THEN -DigitsValue(u) ELSE DigitsValue(u)]
        ELSE [ok |-> FALSE, val |-> 0]          \* ValueError

(***************************************************************************)
(* Files.                                                                  *)
(***************************************************************************)
NoFile == [kind |-> "none", lines |-> <<>>, nl |-> TRUE]
Undecodable == [kind |-> "bytes", lines |-> <<>>, nl |-> TRUE]
Text(ls, nl) == [kind |-> "text", lines |-> ls, nl |-> nl]

RECURSIVE Chunks(_, _)
\* a token stream laid out w tokens to a line
Chunks(toks, w) ==
    IF toks = <<>> THEN <<>>
    ELSE << SubSeq(toks, 1, Min(w, Len(toks))) >> \o Chunks(SubSeq(toks, w + 1, Len(toks)), w)

\* a faulty emitter: x and y written in the wrong order
PointLine_swapped(p) == << FormatFloat(p[2]), FormatFloat(p[1]), FormatFloat(p[3]) >>
\* f"{point[0]} {point[1]} {point[2]}"
PointLine(p) == << FormatFloat(p[1]), FormatFloat(p[2]), FormatFloat(p[3]) >>
CellLine(n) == << FormatInt(n) >> \o [i \in 1..n |-> FormatInt(i - 1)]

\* VTKConverter._create_simple_vtk_file: the text written to output_path
create_simple_vtk_file(pts, energy_values) ==
    LET n_points == Len(pts)
    IN  Text(   << << W("#"), W("vtk"), W("DataFile"), W("Version"), <<"3", ".", "0">> >>,
                   << W("Drill"), W("path"), W("data") >>,
                   << W("ASCII") >>,
                   << W("DATASET"), W("POLYDATA") >>,
                   << W("POINTS"), FormatInt(n_points), W("float") >> >>
             \o [i \in 1..n_points |-> PointLine(pts[i])]
             \o << << W("LINES"), FormatInt(1), FormatInt(n_points + 1) >>,
                   CellLine(n_points),
                   << W("POINT_DATA"), FormatInt(n_points) >>,
                   << W("SCALARS"), W("Energy"), W("float"), FormatInt(1) >>,
                   << W("LOOKUP_TABLE"), W("default") >> >>
             \o [i \in 1..Len(energy_values) |-> << FormatFloat(energy_values[i]) >>],
             TRUE)

\* VTKConverter.create_vtk_file, library path: the PolyData handed to
\* vtkPolyDataWriter holds the points, one polyline over all of them and a double
\* array "Energy" attached with AddArray and not made the active scalars, which the
\* writer emits as field data; coordinates and values go out nine to a line.
library_vtk_file(pts, energy_values) ==
    LET n_points == Len(pts)
        coords == Flatten([i \in 1..n_points |->
                      << FormatG(pts[i][1]), FormatG(pts[i][2]), FormatG(pts[i][3]) >>])
        values == [i \in 1..Len(energy_values) |-> FormatG(energy_values[i])]
    IN  Text(   << << W("#"), W("vtk"), W("DataFile"), W("Version"), <<"4", ".", "2">> >>,
                   << W("vtk"), W("output") >>,
                   << W("ASCII") >>,
                   << W("DATASET"), W("POLYDATA") >>,
                   << W("POINTS"), FormatInt(n_points), W("float") >> >>
             \o Chunks(coords, 9)
             \o << << W("LINES"), FormatInt(1), FormatInt(n_points + 1) >>,
                   CellLine(n_points),
                   << W("POINT_DATA"), FormatInt(n_points) >>,
                   << W("FIELD"), W("FieldData"), FormatInt(1) >>,
                   << W("Energy"), FormatInt(1), FormatInt(Len(energy_values)), W("double") >> >>
             \o Chunks(values, 9),
             TRUE)

\* VTKConverter.create_vtk_file: the outcome and the file at output_path afterwards
create_vtk_file(old, pts, energy_values) ==
    IF Len(pts) < 2
    THEN [raised |-> "ValueError", result |-> FALSE, file |-> old]
    ELSE IF ~VTK_AVAILABLE
    THEN [raised |-> "none", result |-> TRUE, file |-> create_simple_vtk_file(pts, energy_values)]
    ELSE [raised |-> "none", result |-> TRUE, file |-> library_vtk_file(pts, energy_values)]

(***************************************************************************)
(* VTKSimpleRenderer.parse_vtk_file.                                       *)
(***************************************************************************)
RECURSIVE TokensFrom(_, _)
\* every token of the content with the line it stands on, in reading order
TokensFrom(ls, k) ==
    IF k > Len(ls) THEN <<>>
    ELSE [i \in 1..Len(ls[k]) |-> [t |-> ls[k][i], ln |-> k]] \o TokensFrom(ls, k + 1)
Tokens(content) == TokensFrom(content.lines, 1)

\* the digits a \d+ group takes from the front of a token
RECURSIVE LeadingDigits(_)
LeadingDigits(tok) ==
    IF tok # <<>> /\ tok[1] \in Digits THEN << tok[1] >> \o LeadingDigits(Tail(tok)) ELSE <<>>

\* the characters a \w+ group takes from the front of a token
WordChar(c) == c \notin {"-", "+", ".", "#"}
RECURSIVE LeadingWord(_)
LeadingWord(tok) ==
    IF tok # <<>> /\ WordChar(tok[1]) THEN << tok[1] >> \o LeadingWord(Tail(tok)) ELSE <<>>

First(S) == IF S = {} THEN 0 ELSE CHOOSE i \in S : \A j \in S : i <= j

\* content.find(keyword): the first token that is the keyword, 0 when there is none
Find(tk, keyword) == First({ i \in 1..Len(tk) : tk[i].t = W(keyword) })
FindFrom(tk, keyword, from) == First({ i \in from..Len(tk) : tk[i].t = W(keyword) })

\* re.search(r'POINTS\s+(\d+)', content)
points_match(tk) ==
    First({ i \in 1..(Len(tk) - 1) : tk[i].t = W("POINTS") /\ LeadingDigits(tk[i + 1].t) # <<>> })

\* re.search(r'LINES\s+(\d+)\s+(\d+)', content)
lines_match(tk) ==
    First({ i \in 1..(Len(tk) - 2) :
              /\ tk[i].t = W("LINES")
              /\ tk[i + 1].t # <<>> /\ IsDigits(tk[i + 1].t)
              /\ LeadingDigits(tk[i + 2].t) # <<>> })

\* re.search(r'SCALARS\s+(\w+)', content)
scalar_match(tk) ==
    First({ i \in 1..(Len(tk) - 1) : tk[i].t = W("SCALARS") /\ LeadingWord(tk[i + 1].t) # <<>> })

\* content[content.find('\n', pos) + 1:].split('\n') for a position on line ln: the
\* lines after it, or the whole content when no newline follows (find gives -1)
DataAfter(content, ln) ==
    IF ln < Len(content.lines) \/ content.nl
    THEN SubSeq(content.lines, ln + 1, Len(content.lines))
    ELSE content.lines

RECURSIVE ReadPointsLine(_, _, _, _)
\* for i in range(0, len(values), 3), i counted from 0
ReadPointsLine(values, i, pts, num_points) ==
    IF i >= Len(values) THEN pts
    ELSE IF i + 2 < Len(values)
    THEN LET x == ParseFloat(values[i + 1])
             y == ParseFloat(values[i + 2])
             z == ParseFloat(values[i + 3])
         IN  IF x.ok /\ y.ok /\ z.ok
             THEN LET more == Append(pts, << x.val, y.val, z.val >>)
                  IN  IF Len(more) >= num_points THEN more
                      ELSE ReadPointsLine(values, i + 3, more, num_points)
             ELSE ReadPointsLine(values, i + 3, pts, num_points)
    ELSE ReadPointsLine(values, i + 3, pts, num_points)

RECURSIVE ReadPoints(_, _, _, _)
ReadPoints(ls, k, pts, num_points) ==
    IF k > Len(ls) \/ Len(pts) >= num_points THEN pts
    ELSE ReadPoints(ls, k + 1, ReadPointsLine(ls[k], 0, pts, num_points), num_points)

\* one line of the LINES block: the vertex list it adds, if any
ReadCell(values) ==
    IF Len(values) < 2 THEN [ok |-> FALSE, vertices |-> <<>>]
    ELSE LET num_vertices == ParseInt(values[1])
             last == Min(Len(values), num_vertices.val + 1)
             parsed == [i \in 1..(IF last > 1 THEN last - 1 ELSE 0) |-> ParseInt(values[i + 1])]
         IN  IF /\ num_vertices.ok
                /\ \A i \in 1..Len(parsed) : parsed[i].ok
                /\ Len(parsed) = num_vertices.val
             THEN [ok |-> TRUE, vertices |-> [i \in 1..Len(parsed) |-> parsed[i].val]]
             ELSE [ok |-> FALSE, vertices |-> <<>>]

RECURSIVE ReadLines(_, _, _, _)
ReadLines(ls, k, cells, num_lines) ==
    IF k > Len(ls) \/ Len(cells) >= num_lines THEN cells
    ELSE LET c == ReadCell(ls[k])
         IN  ReadLines(ls, k + 1, IF c.ok THEN Append(cells, c.vertices) ELSE cells, num_lines)

RECURSIVE ReadScalarsLine(_, _, _, _)
ReadScalarsLine(values, i, vals, num_points) ==
    IF i > Len(values) THEN vals
    ELSE LET v == ParseFloat(values[i])
         IN  IF v.ok
             THEN LET more == Append(vals, v.val)
                  IN  IF Len(more) >= num_points THEN more
                      ELSE ReadScalarsLine(values, i + 1, more, num_points)
             ELSE ReadScalarsLine(values, i + 1, vals, num_points)

RECURSIVE ReadScalars(_, _, _, _)
ReadScalars(ls, k, vals, num_points) ==
    IF k > Len(ls) \/ Len(vals) >= num_points THEN vals
    ELSE ReadScalars(ls, k + 1, ReadScalarsLine(ls[k], 1, vals, num_points), num_points)

\* self.scalars[name] = values on a dict kept in insertion order
DictSet(d, name, values) ==
    IF \E i \in 1..Len(d) : d[i].name = name
    THEN [i \in 1..Len(d) |-> IF d[i].name = name THEN [name |-> name, values |-> values] ELSE d[i]]
    ELSE Append(d, [name |-> name, values |-> values])

\* a faulty handler: as narrow as the inner ones
ExceptException_narrow(e) == e \in {"ValueError", "IndexError"}
\* which exceptions `except Exception` catches
ExceptException(e) == e \in {"FileNotFoundError", "UnicodeDecodeError", "ValueError", "IndexError"}

\* open(vtk_path, 'r', encoding='utf-8') and f.read()
OpenRead(f) ==
    IF f.kind = "none" THEN "FileNotFoundError"
    ELSE IF f.kind = "bytes" THEN "UnicodeDecodeError"
    ELSE "none"

\* the body of parse_vtk_file once the content is read, on a reader whose fields are rd
ParseContent(rd, content) ==
    LET tk == Tokens(content)
        pm == points_match(tk)
    IN  IF pm = 0 THEN [rd EXCEPT !.result = FALSE, !.raised = "none"]
        ELSE
        LET num_points == DigitsValue(LeadingDigits(tk[pm + 1].t))
            points_start == Find(tk, "POINTS")
            pts == ReadPoints(DataAfter(content, tk[points_start].ln), 1, <<>>, num_points)
            lm == lines_match(tk)
            cells == IF lm = 0 THEN rd.lines
                     ELSE ReadLines(DataAfter(content, tk[Find(tk, "LINES")].ln), 1, <<>>,
                                    DigitsValue(tk[lm + 1].t))
            sm == scalar_match(tk)
            scalar_start == Find(tk, "SCALARS")
            lookup_table_pos == IF sm = 0 THEN 0 ELSE FindFrom(tk, "LOOKUP_TABLE", scalar_start)
            scalar_values ==
                IF lookup_table_pos = 0 THEN <<>>
                ELSE ReadScalars(DataAfter(content, tk[lookup_table_pos].ln), 1, <<>>, num_points)
            dict == IF scalar_values = <<>> THEN rd.scalars
                    ELSE DictSet(rd.scalars, LeadingWord(tk[sm + 1].t),
                                 SubSeq(scalar_values, 1, Min(num_points, Len(scalar_values))))
        IN  [points |-> pts, lines |-> cells, scalars |-> dict, result |-> TRUE, raised |-> "none"]

\* VTKSimpleRenderer.parse_vtk_file on a reader whose fields are rd
parse_vtk_file(rd, f) ==
    LET e == OpenRead(f)
    IN  IF e # "none"
        THEN IF ExceptException(e) THEN [rd EXCEPT !.result = FALSE, !.raised = "none"]
             ELSE [rd EXCEPT !.result = FALSE, !.raised = e]
        ELSE ParseContent(rd, f)

\* VTKSimpleRenderer.__init__
FreshReader == [points |-> <<>>, lines |-> <<>>, scalars |-> <<>>, result |-> FALSE, raised |-> "none"]

(***************************************************************************)
(* VTKGenerator: the in-memory writer, and save_to_file around it.         *)
(***************************************************************************)
\* VTKGenerator._create_simple_vtk_text; energy_values of None and [] are both
\* falsy and are both held as << >>
create_simple_vtk_text(pts, energy_values) ==
    Text(   << << W("#"), W("vtk"), W("DataFile"), W("Version"), <<"4", ".", "2">> >>,
               << W("Drilling"), W("trajectory"), W("data") >>,
               << W("ASCII") >>,
               << W("DATASET"), W("POLYDATA") >>,
               << W("POINTS"), FormatInt(Len(pts)), W("float") >> >>
         \o [i \in 1..Len(pts) |-> PointLine(pts[i])]
         \o << << W("LINES"), FormatInt(1), FormatInt(Len(pts) + 1) >>,
               CellLine(Len(pts)) >>
         \o (IF energy_values # <<>>
             THEN << << W("POINT_DATA"), FormatInt(Len(pts)) >>,
                     << W("SCALARS"), W("Energy"), W("float"), FormatInt(1) >>,
                     << W("LOOKUP_TABLE"), W("default") >> >>
                  \o [i \in 1..Len(energy_values) |-> << FormatFloat(energy_values[i]) >>]
             ELSE <<>>),
         FALSE)

\* VTKGenerator._create_vtk_polydata, library path: as in VTKConverter, but the array
\* is also made the active scalars (SetScalars), so it goes out as a SCALARS block
library_vtk_polydata(pts, energy_values) ==
    LET coords == Flatten([i \in 1..Len(pts) |->
                      << FormatG(pts[i][1]), FormatG(pts[i][2]), FormatG(pts[i][3]) >>])
        values == [i \in 1..Len(energy_values) |-> FormatG(energy_values[i])]
    IN  Text(   << << W("#"), W("vtk"), W("DataFile"), W("Version"), <<"4", ".", "2">> >>,
                   << W("vtk"), W("output") >>,
                   << W("ASCII") >>,
                   << W("DATASET"), W("POLYDATA") >>,
                   << W("POINTS"), FormatInt(Len(pts)), W("float") >> >>
             \o Chunks(coords, 9)
             \o << << W("LINES"), FormatInt(1), FormatInt(Len(pts) + 1) >>,
                   CellLine(Len(pts)) >>
             \o (IF energy_values # <<>>
                 THEN << << W("POINT_DATA"), FormatInt(Len(pts)) >>,
                         << W("SCALARS"), W("Energy"), W("double") >>,
                         << W("LOOKUP_TABLE"), W("default") >> >>
                      \o Chunks(values, 9)
                 ELSE <<>>),
             TRUE)

\* VTKGenerator._create_vtk_polydata: the outcome and the bytes returned
create_vtk_polydata(pts, energy_values) ==
    IF ~VTK_AVAILABLE
    THEN [raised |-> "none", out |-> create_simple_vtk_text(pts, energy_values)]
    ELSE [raised |-> "none", out |-> library_vtk_polydata(pts, energy_values)]

(***************************************************************************)
(* Inputs.                                                                 *)
(***************************************************************************)
PointLists == SeqsUpTo(PointSet, MaxPoints)
EnergyList(k) == [i \in 1..k |-> EnergyCycle[((i - 1) % Len(EnergyCycle)) + 1]]
EnergyLists == { EnergyList(k) : k \in 0..MaxScalars }
RawPoints(k) == [i \in 1..k |-> << 10 * i, -5 * i, 173 >>]

\* A file some other tool or a broken transfer left at the path: the coordinates of
\* pts as one token stream laid out w tokens to a line, under a POINTS header that
\* declares n points (hdr), with the junk-th token replaced by a word, and followed
\* by a LINES block (cell) and a SCALARS block (sc) of as many values as pts has
\* points, two to a line unless the points are one to a line.
RawShapes == {
    [hdr |-> TRUE,  junk |-> 0, w |-> 2],
    [hdr |-> TRUE,  junk |-> 0, w |-> 3],
    [hdr |-> TRUE,  junk |-> 0, w |-> 4],
    [hdr |-> TRUE,  junk |-> 0, w |-> 6],
    [hdr |-> TRUE,  junk |-> 2, w |-> 3],
    [hdr |-> FALSE, junk |-> 0, w |-> 3] }
RawParams ==
    { p \in
      { [hdr |-> sh.hdr, junk |-> sh.junk, w |-> sh.w, pts |-> pts, n |-> n,
       cell |-> cell, sc |-> sc] :
        sh \in RawShapes, pts \in { RawPoints(k) : k \in 0..MaxRawPoints },
        n \in 0..(MaxRawPoints + 1), cell \in BOOLEAN, sc \in BOOLEAN } :
      p.n \in { Len(p.pts), Len(p.pts) + 1 } }
NoRaw == [hdr |-> FALSE, junk |-> 0, w |-> 0, pts |-> <<>>, n |-> 0, cell |-> FALSE, sc |-> FALSE]

RawCoords(p) ==
    LET toks == Flatten([i \in 1..Len(p.pts) |-> PointLine(p.pts[i])])
    IN  [i \in 1..Len(toks) |-> IF i = p.junk THEN W("x") ELSE toks[i]]
RawScalars(p) == [i \in 1..Len(p.pts) |-> FormatFloat(EnergyList(Len(p.pts))[i])]

RawFile(p) ==
    Text(   << << W("DATASET"), W("POLYDATA") >> >>
         \o (IF p.hdr THEN << << W("POINTS"), FormatInt(p.n), W("float") >> >> ELSE <<>>)
         \o Chunks(RawCoords(p), p.w)
         \o (IF p.cell
             THEN << << W("LINES"), FormatInt(1), FormatInt(Len(p.pts) + 1) >>,
                     CellLine(Len(p.pts)) >>
             ELSE <<>>)
         \o (IF p.sc
             THEN << << W("POINT_DATA"), FormatInt(p.n) >>,
                     << W("SCALARS"), W("Temp"), W("float"), FormatInt(1) >>,
                     << W("LOOKUP_TABLE"), W("default") >> >>
                  \o Chunks(RawScalars(p), IF p.w = 3 THEN 1 ELSE 2)
             ELSE <<>>),
         TRUE)

(***************************************************************************)
(* Base coordinates and trajectories.  Distances and drilling lengths are  *)
(* in tenths of a metre, angles in thousandths of a degree, coordinates    *)
(* and elevations in micrometres; the reference coordinates of the         *)
(* calculator (millimetres in the code) are in micrometres as well.        *)
(* cos and sin are tabulated to nine places for the angles in use.         *)
(***************************************************************************)
\* an optional argument: left out (None), or given
NoArg == [given |-> FALSE, v |-> 0]
Arg(v) == [given |-> TRUE, v |-> v]

\* math.cos and math.sin of an angle in degrees, in units of 10^-9
TrigAngles == { 0, 24412, 65588, 90000 }
Cos(deg) ==
    CASE deg = 0 -> 1000000000 [] deg = 24412 -> 910597120
      [] deg = 65588 -> 413295154 [] deg = 90000 -> 0
\* a faulty calculator: the cosine taken for the sine
cos_for_sin(deg) == Cos(deg)

Sin(deg) ==
    CASE deg = 0 -> 0 [] deg = 24412 -> 413295154
      [] deg = 65588 -> 910597120 [] deg = 90000 -> 1000000000

\* length * trig: tenths of a metre times units of 10^-9, in micrometres
MulTrig(length, trig) == length * (trig \div 10000) + (length * (trig % 10000)) \div 10000

\* a faulty calculator: the result is rounded to the centimetre
round2(v) == ((v + 5000) \div 10000) * 10000

\* round(v / 1000, 3) of a value in millimetres: the nearest millimetre, a tie
\* going to the even one
round3(v) ==
    IF v % 1000 < 500 THEN (v \div 1000) * 1000
    ELSE IF v % 1000 > 500 THEN (v \div 1000 + 1) * 1000
    ELSE IF (v \div 1000) % 2 = 0 THEN (v \div 1000) * 1000
    ELSE (v \div 1000 + 1) * 1000

\* LMRCoordinateCalculator.DEFAULT_REFERENCE_COORDS
DEFAULT_REFERENCE_COORDS ==
    [Q |-> -660689760, R |-> 733147100, S |-> -658622871,
     T |-> 737699910, U |-> -656556811, V |-> 742253072]
REFERENCE_DISTANCE == 9670
DIRECTION_ANGLE == 65588
\* VTKConverter.Z_ELEVATIONS
Z_ELEVATIONS == [L |-> 17300000, M |-> 21300000, R |-> 17300000]

\* the lmr_parameters and z_elevations sections of the configuration file, or no file
NoLmrConfig ==
    [found |-> FALSE, reference_distance |-> 0, direction_angle |-> 0,
     reference_coordinates |-> [L |-> [X |-> 0, Y |-> 0], M |-> [X |-> 0, Y |-> 0], R |-> [X |-> 0, Y |-> 0]],
     z_elevations |-> [L |-> 0, M |-> 0, R |-> 0]]
LmrConfigs ==
    { NoLmrConfig,
      [found |-> TRUE, reference_distance |-> 10000, direction_angle |-> 90000,
       reference_coordinates |-> [L |-> [X |-> -2500499, Y |-> 400],
                                  M |-> [X |-> 0, Y |-> 5000000],
                                  R |-> [X |-> 2500501, Y |-> 1600]],
       z_elevations |-> [L |-> 17000000, M |-> 21000000, R |-> 17500000]] }

\* LMRCoordinateCalculator.__init__
LMRCoordinateCalculator(config) ==
    IF config.found
    THEN [REFERENCE_DISTANCE |-> config.reference_distance,
          DIRECTION_ANGLE |-> config.direction_angle,
          reference_coords |->
              [Q |-> config.reference_coordinates.L.X, R |-> config.reference_coordinates.L.Y,
               S |-> config.reference_coordinates.M.X, T |-> config.reference_coordinates.M.Y,
               U |-> config.reference_coordinates.R.X, V |-> config.reference_coordinates.R.Y]]
    ELSE [REFERENCE_DISTANCE |-> REFERENCE_DISTANCE,
          DIRECTION_ANGLE |-> DIRECTION_ANGLE,
          reference_coords |-> DEFAULT_REFERENCE_COORDS]

\* VTKConverter.__init__
VTKConverter(config) ==
    [Z_ELEVATIONS |-> IF config.found THEN config.z_elevations ELSE Z_ELEVATIONS,
     calculator |-> LMRCoordinateCalculator(config)]

\* a faulty calculator: the arguments of the call are kept in the calculator
resolve_defaults_stored(self, direction_angle, reference_distance) ==
    [self |-> [self EXCEPT
                  !.DIRECTION_ANGLE = IF direction_angle.given THEN direction_angle.v ELSE @,
                  !.REFERENCE_DISTANCE = IF reference_distance.given THEN reference_distance.v ELSE @],
     direction_angle |-> IF direction_angle.given THEN direction_angle.v ELSE self.DIRECTION_ANGLE,
     reference_distance |-> IF reference_distance.given THEN reference_distance.v
                            ELSE self.REFERENCE_DISTANCE]

\* calculate_coordinates, the default values: the arguments left out are taken
\* from the calculator, which is not assigned to
resolve_defaults(self, direction_angle, reference_distance) ==
    [self |-> self,
     direction_angle |-> IF direction_angle.given THEN direction_angle.v ELSE self.DIRECTION_ANGLE,
     reference_distance |-> IF reference_distance.given THEN reference_distance.v
                            ELSE self.REFERENCE_DISTANCE]

\* calculate_coordinates, the six coordinates from distance_diff, cos_val and sin_val
Coordinates(self, distance_diff, cos_val, sin_val, direction_angle, distance) ==
    [L_X |-> round3(-MulTrig(distance_diff, cos_val) + self.reference_coords.Q),
     L_Y |-> round3(MulTrig(distance_diff, sin_val) + self.reference_coords.R),
     M_X |-> round3(-MulTrig(distance_diff, cos_val) + self.reference_coords.S),
     M_Y |-> round3(MulTrig(distance_diff, sin_val) + self.reference_coords.T),
     R_X |-> round3(-MulTrig(distance_diff, cos_val) + self.reference_coords.U),
     R_Y |-> round3(MulTrig(distance_diff, sin_val) + self.reference_coords.V),
     direction |-> direction_angle,
     distance |-> distance]

\* calculate_coordinates once the defaults are settled
CalculateWith(args, distance) ==
    [self |-> args.self,
     coords |-> Coordinates(args.self, distance - args.reference_distance,
                            Cos(90000 - args.direction_angle), Sin(90000 - args.direction_angle),
                            args.direction_angle, distance)]

\* LMRCoordinateCalculator.calculate_coordinates: the calculator after the call
\* and the dictionary returned
calculate_coordinates(self, distance, direction_angle, reference_distance) ==
    CalculateWith(resolve_defaults(self, direction_angle, reference_distance), distance)

\* LMRCoordinateCalculator.calculate_batch: zip(distances, angles), each pair
\* handed to calculate_coordinates with reference_distance, which is 0.0 when
\* the argument is left out; one row for each pair
calculate_batch(self, distances, angles, reference_distance) ==
    [i \in 1..Min(Len(distances), Len(angles)) |->
        calculate_coordinates(self, distances[i], Arg(angles[i]),
                              Arg(IF reference_distance.given THEN reference_distance.v ELSE 0)).coords]

\* get_coordinates_for_lmr after the call of calculate_coordinates
BaseOf(self, call, lmr_type) ==
    IF lmr_type \notin { "L", "M", "R" }
    THEN [self |-> [self EXCEPT !.calculator = call.self], raised |-> "ValueError",
          x_base |-> 0, y_base |-> 0, angle |-> 0, z_elevation |-> 0]
    ELSE [self |-> [self EXCEPT !.calculator = call.self], raised |-> "none",
          x_base |-> IF lmr_type = "L" THEN call.coords.L_X
                     ELSE IF lmr_type = "M" THEN call.coords.M_X ELSE call.coords.R_X,
          y_base |-> IF lmr_type = "L" THEN call.coords.L_Y
                     ELSE IF lmr_type = "M" THEN call.coords.M_Y ELSE call.coords.R_Y,
          angle |-> call.self.DIRECTION_ANGLE,
          z_elevation |-> self.Z_ELEVATIONS[lmr_type]]

\* VTKConverter.get_coordinates_for_lmr: the converter after the call and the
\* tuple returned
get_coordinates_for_lmr(self, lmr_type, distance) ==
    BaseOf(self, calculate_coordinates(self.calculator, distance, NoArg, NoArg), lmr_type)

\* a faulty builder: the hole starts one sample further on
calculate_3d_points_shifted(drilling_lengths, x_base, y_base, z_elevation, angle) ==
    [i \in 1..Len(drilling_lengths) |->
        << x_base - MulTrig(drilling_lengths[i] + 5, Sin(angle)),
           y_base + MulTrig(drilling_lengths[i] + 5, Cos(angle)),
           z_elevation >>]

\* VTKConverter.calculate_3d_points
calculate_3d_points(drilling_lengths, x_base, y_base, z_elevation, angle) ==
    [i \in 1..Len(drilling_lengths) |->
        << x_base - MulTrig(drilling_lengths[i], Sin(angle)),
           y_base + MulTrig(drilling_lengths[i], Cos(angle)),
           z_elevation >>]

(***************************************************************************)
(* Writing and previewing VTK files.                                       *)
(***************************************************************************)
Origin(by, pts, energy_values, raw) ==
    [by |-> by, points |-> pts, energy |-> energy_values, raw |-> raw]
Ret(op, n, raised, result) == [op |-> op, n |-> n, raised |-> raised, result |-> result]

\* no survey point entered
NoPoint == [given |-> FALSE, c_value |-> 0, e_value |-> 0]
NoDistance == [called |-> FALSE, value |-> 0]
SurveyIdle ==
    /\ survey_point_str = <<>>
    /\ survey = [status |-> "none", c_value |-> 0, e_value |-> 0]
    /\ survey_calc = [C |-> 0, E |-> 0, factor |-> 0, reference_value |-> 0]
    /\ survey_given = NoPoint
    /\ survey_distance = NoDistance
    /\ shown = "none"

\* a map with no key
EmptyMap == [k \in {} |-> 0]

\* no batch set up
BatchIdle ==
    /\ entry = "none"
    /\ data_source = EmptyMap
    /\ selected_files = <<>>
    /\ distance_from_entrance = 0
    /\ pc = "idle"
    /\ idx = 0
    /\ success_files = <<>>
    /\ error_files = <<>>
    /\ generated_files = EmptyMap
    /\ temp_files = {}
    /\ output = EmptyMap
    /\ generated_vtk_files = EmptyMap

\* the converter of a fresh session, no method called
NoCall == [op |-> "none"]
LmrIdle ==
    /\ converter = VTKConverter(NoLmrConfig)
    /\ coords_log = EmptyMap
    /\ lmr_ret = NoCall

\* pd.DataFrame()
EmptyFrame == [columns |-> <<>>, n |-> 0]
\* process_multiple_files not called
NoiseIdle ==
    /\ data_dict = <<>>
    /\ use_parallel = FALSE
    /\ futures = {}
    /\ individual_results = <<>>
    /\ combined_data = EmptyFrame
    /\ noise_pc = "idle"

\* Outside a preview there is no renderer: it is local to the preview handler
\* (app_enhanced.py:1142) and its fields read as those __init__ sets.
NoRenderer ==
    /\ points' = FreshReader.points
    /\ lines' = FreshReader.lines
    /\ scalars' = FreshReader.scalars

\* What is at the output path to begin with: nothing, bytes that are no UTF-8 text,
\* or a text file of another tool.
VtkInit ==
    /\ NoiseIdle
    /\ VTK_AVAILABLE \in BOOLEAN
    /\ \/ file = NoFile /\ origin = Origin("none", <<>>, <<>>, NoRaw)
       \/ file = Undecodable /\ origin = Origin("bytes", <<>>, <<>>, NoRaw)
       \/ \E p \in RawParams : file = RawFile(p) /\ origin = Origin("env", <<>>, <<>>, p)
    /\ ret = Ret("none", 0, "none", FALSE)
    /\ points = FreshReader.points
    /\ lines = FreshReader.lines
    /\ scalars = FreshReader.scalars
    /\ SurveyIdle
    /\ BatchIdle
    /\ LmrIdle

\* converter.create_vtk_file(output_path, points, energy_values)
CreateVtkFile ==
    \E pts \in PointLists, energy_values \in EnergyLists :
        LET r == create_vtk_file(file, pts, energy_values)
        IN  /\ file' = r.file
            /\ origin' = IF r.raised = "none"
                         THEN Origin(IF VTK_AVAILABLE THEN "library" ELSE "text",
                                     pts, energy_values, NoRaw)
                         ELSE origin
            /\ ret' = Ret("create_vtk_file", Len(pts), r.raised, r.result)
            /\ NoRenderer
            /\ UNCHANGED <<VTK_AVAILABLE, surveyVars, batchVars, lmrVars, noiseVars>>

\* generator.save_to_file: the bytes of _create_vtk_polydata written to output_path
SaveToFile ==
    \E pts \in PointLists : \E energy_values \in { <<>>, EnergyList(Len(pts)) } :
        LET r == create_vtk_polydata(pts, energy_values)
        IN  /\ file' = IF r.raised = "none" THEN r.out ELSE file
            /\ origin' = IF r.raised = "none"
                         THEN Origin("generator", pts, energy_values, NoRaw)
                         ELSE origin
            /\ ret' = Ret("create_vtk_polydata", Len(pts), r.raised, r.raised = "none")
            /\ NoRenderer
            /\ UNCHANGED <<VTK_AVAILABLE, surveyVars, batchVars, lmrVars, noiseVars>>

\* renderer = VTKSimpleRenderer(); renderer.parse_vtk_file(vtk_path)
Preview ==
    LET r == parse_vtk_file(FreshReader, file)
    IN  /\ points' = r.points
        /\ lines' = r.lines
        /\ scalars' = r.scalars
        /\ ret' = Ret("parse_vtk_file", 0, r.raised, r.result)
        /\ UNCHANGED <<VTK_AVAILABLE, file, origin, surveyVars, batchVars, lmrVars, noiseVars>>

VtkNext == CreateVtkFile \/ SaveToFile \/ Preview

Spec == VtkInit /\ [][VtkNext]_vars

(***************************************************************************)
(* Claims about the writers and the reader.                                *)
(***************************************************************************)
Polyline(n) == [i \in 1..n |-> i - 1]
ParsedWrite(by) ==
    /\ ret.op = "parse_vtk_file"
    /\ origin.by = by
    /\ Len(origin.points) >= 2
    /\ Len(origin.energy) = Len(origin.points)

\* C1: a file the text emitter wrote from N >= 2 points and N scalars parses, on a
\* fresh reader, to exactly those points in order, those scalars in order under the
\* name Energy, and one polyline 0, 1, ..., N-1.
C1_RoundTrip ==
    ParsedWrite("text") =>
        /\ ret.result /\ ret.raised = "none"
        /\ points = origin.points
        /\ scalars = << [name |-> W("Energy"), values |-> origin.energy] >>
        /\ lines = << Polyline(Len(origin.points)) >>
C1_Witness ==
    /\ ParsedWrite("text")
    /\ Len(points) = 2 /\ points[1] # points[2]
    /\ Len(scalars) = 1 /\ scalars[1].values = << 0, -25 >>

\* C2: whichever writer path wrote the file, the reader gives what it gives for the
\* text emitter's file of the same points and scalars: same points, same single
\* polyline, same named scalar array.
C2_WritersInterchangeable ==
    (ParsedWrite("text") \/ ParsedWrite("library")) =>
        LET t == parse_vtk_file(FreshReader,
                                create_simple_vtk_file(origin.points, origin.energy))
        IN  /\ ret.result = t.result
            /\ points = t.points
            /\ lines = t.lines
            /\ scalars = t.scalars

\* the layout of section 4.4 for n points: header, POINTS n and n triples, LINES 1 n+1
\* and the cell n 0 .. n-1, POINT_DATA n, one SCALARS/LOOKUP_TABLE block, n values
IsFloatToken(tok) == ParseFloat(tok).ok
ConformsTo(f, n) ==
    /\ f.kind = "text"
    /\ Len(f.lines) = 10 + 2 * n
    /\ f.lines[5] = << W("POINTS"), FormatInt(n), W("float") >>
    /\ \A i \in 1..n : Len(f.lines[5 + i]) = 3 /\ \A j \in 1..3 : IsFloatToken(f.lines[5 + i][j])
    /\ f.lines[6 + n] = << W("LINES"), FormatInt(1), FormatInt(n + 1) >>
    /\ f.lines[7 + n] = << FormatInt(n) >> \o [i \in 1..n |-> FormatInt(i - 1)]
    /\ f.lines[8 + n] = << W("POINT_DATA"), FormatInt(n) >>
    /\ Len(f.lines[9 + n]) = 4 /\ f.lines[9 + n][1] = W("SCALARS")
    /\ f.lines[10 + n] = << W("LOOKUP_TABLE"), W("default") >>
    /\ \A i \in 1..n : Len(f.lines[10 + n + i]) = 1 /\ IsFloatToken(f.lines[10 + n + i][1])

\* C3: after create_vtk_file with n >= 2 points, whatever scalar list was passed, the
\* text output has the layout of section 4.4 for n points, n scalar values included.
C3_Structure ==
    (ret.op = "create_vtk_file" /\ ret.n >= 2 /\ ~VTK_AVAILABLE) => ConformsTo(file, ret.n)

\* C4: a write entry point called with fewer than 2 points raises, and no writer
\* leaves a serialized document of 0 or 1 points.
C4_RejectsShortDocuments ==
    /\ (ret.op \in {"create_vtk_file", "create_vtk_polydata"} /\ ret.n < 2)
          => ret.raised = "ValueError"
    /\ origin.by \in {"text", "library", "generator"} => Len(origin.points) >= 2

\* the content has a POINTS keyword followed by a number
HasPointsHeader(f) ==
    \E k \in 1..Len(f.lines) : \E i \in 1..Len(f.lines[k]) :
        /\ f.lines[k][i] = W("POINTS")
        /\ LET next == IF i < Len(f.lines[k]) THEN f.lines[k][i + 1]
                       ELSE IF \E m \in (k + 1)..Len(f.lines) : f.lines[m] # <<>>
                       THEN f.lines[CHOOSE m \in (k + 1)..Len(f.lines) :
                                        f.lines[m] # <<>> /\ \A q \in (k + 1)..(m - 1) : f.lines[q] = <<>>][1]
                       ELSE <<>>
           IN  next # <<>> /\ next[1] \in Digits

\* C7: parse_vtk_file never raises, whatever is at the path, and returns False when
\* the file is missing, is no text, or has no POINTS <n> header.
C7_NeverRaises ==
    ret.op = "parse_vtk_file" =>
        /\ ret.raised = "none"
        /\ (file.kind # "text" \/ ~HasPointsHeader(file)) => ~ret.result
C7_Witness ==
    /\ ret.op = "parse_vtk_file" /\ ~ret.result
    /\ file.kind = "text" /\ ~HasPointsHeader(file) /\ Len(file.lines) > 1

\* C8: a file that declares more points than it holds complete, or holds fewer
\* scalar values than the points it declares, is reported as a failure.
Truncated(p) == p.hdr /\ p.junk = 0 /\ Len(p.pts) < p.n
C8_TruncationFails ==
    (ret.op = "parse_vtk_file" /\ origin.by = "env" /\ Truncated(origin.raw)) => ~ret.result

\* C9: the parsed points and scalars do not depend on where the lines break: the
\* same tokens laid out one point to a line parse to the same points and scalars.
C9_TokenBased ==
    (ret.op = "parse_vtk_file" /\ origin.by = "env") =>
        LET one == parse_vtk_file(FreshReader, RawFile([origin.raw EXCEPT !.w = 3]))
        IN  /\ ret.result = one.result
            /\ points = one.points
            /\ scalars = one.scalars

(***************************************************************************)
(* SurveyPointCalculator.parse_survey_point.                               *)
(***************************************************************************)
\* the characters a survey-point text is made of; "x" stands for any character
\* that is no part of a number
TextChars == { "1", "5", "+", ".", "-", " ", "x" }
Texts == SeqsUpTo(TextChars, MaxTextLen)

\* str.split(sep)
RECURSIVE Split(_, _)
Split(s, sep) ==
    IF \E i \in 1..Len(s) : s[i] = sep
    THEN LET i == CHOOSE k \in 1..Len(s) : s[k] = sep /\ \A j \in 1..(k - 1) : s[j] # sep
         IN  << SubSeq(s, 1, i - 1) >> \o Split(SubSeq(s, i + 1, Len(s)), sep)
    ELSE << s >>

\* str.strip(), which float() applies to its argument
RECURSIVE Strip(_)
Strip(s) ==
    IF s # <<>> /\ s[1] = " " THEN Strip(Tail(s))
    ELSE IF s # <<>> /\ s[Len(s)] = " " THEN Strip(SubSeq(s, 1, Len(s) - 1))
    ELSE s

\* float(text), in units of 10^-MaxTextLen
PyFloat(s) == ParseDecimal(Strip(s), MaxTextLen)

Parsed(c, e) == [status |-> "ok", c_value |-> c, e_value |-> e]
FormatError == [status |-> "ValueError", c_value |-> 0, e_value |-> 0]

\* a faulty parser: the number of parts is not tested, the first two are taken
parse_survey_point_first_two(text) ==
    IF ~(\E i \in 1..Len(text) : text[i] = "+") THEN FormatError
    ELSE LET parts == Split(text, "+")
             c == PyFloat(parts[1])
             e == PyFloat(parts[2])
         IN  IF c.ok /\ e.ok THEN Parsed(c.val, e.val) ELSE FormatError

\* SurveyPointCalculator.parse_survey_point
parse_survey_point(text) ==
    IF ~(\E i \in 1..Len(text) : text[i] = "+") THEN FormatError
    ELSE LET parts == Split(text, "+")
         IN  IF Len(parts) # 2 THEN FormatError
             ELSE LET c == PyFloat(parts[1])
                      e == PyFloat(parts[2])
                  IN  IF c.ok /\ e.ok THEN Parsed(c.val, e.val) ELSE FormatError

VtkIdle ==
    /\ VTK_AVAILABLE = FALSE
    /\ file = NoFile
    /\ origin = Origin("none", <<>>, <<>>, NoRaw)
    /\ ret = Ret("none", 0, "none", FALSE)
    /\ points = FreshReader.points
    /\ lines = FreshReader.lines
    /\ scalars = FreshReader.scalars

\* one, in the unit of the survey values
Unit == Pow10(MaxTextLen)
\* v == int(v), and int(v): truncation toward zero
IsIntegral(v) == v % Unit = 0
IntOf(v) == IF v < 0 THEN -(Abs(v) \div Unit) ELSE v \div Unit

\* str(n) of an int
FormatSigned(n) == (IF n < 0 THEN << "-" >> ELSE <<>>) \o FormatInt(Abs(n))
\* the k decimal digits of n, and a digit string without its trailing zeros
RECURSIVE PadDigits(_, _)
PadDigits(n, k) == IF k = 0 THEN <<>> ELSE PadDigits(n \div 10, k - 1) \o << DigitChars[(n % 10) + 1] >>
RECURSIVE StripZeros(_)
StripZeros(ds) == IF ds # <<>> /\ ds[Len(ds)] = "0" THEN StripZeros(SubSeq(ds, 1, Len(ds) - 1)) ELSE ds
\* f"{e_value}" of a float that is no whole number (of a size repr writes in
\* positional notation)
FormatRepr(v) ==
    (IF v < 0 THEN << "-" >> ELSE <<>>)
        \o FormatInt(Abs(v) \div Unit) \o << "." >> \o StripZeros(PadDigits(Abs(v) % Unit, MaxTextLen))

\* a faulty formatter: the minor is always written as int(e_value)
format_survey_point_truncated(c_value, e_value) ==
    FormatSigned(IntOf(c_value)) \o << "+" >> \o FormatSigned(IntOf(e_value))

\* SurveyPointCalculator.format_survey_point
format_survey_point(c_value, e_value) ==
    IF e_value = 0 THEN FormatSigned(IntOf(c_value)) \o << "+", "0" >>
    ELSE IF IsIntegral(e_value) THEN FormatSigned(IntOf(c_value)) \o << "+" >> \o FormatSigned(IntOf(e_value))
    ELSE FormatSigned(IntOf(c_value)) \o << "+" >> \o FormatRepr(e_value)

\* the defaults of SurveyPointCalculator
REFERENCE_POINT_C == 255
REFERENCE_POINT_E == 4
CONVERSION_FACTOR == 20

\* the survey_point section of the configuration file, or no file
NoConfig == [found |-> FALSE, C |-> 0, E |-> 0, factor |-> 0]
Configs == { NoConfig, [found |-> TRUE, C |-> 250, E |-> 11, factor |-> 20] }

\* SurveyPointCalculator.__init__
SurveyPointCalculator(config) ==
    IF config.found
    THEN [C |-> config.C, E |-> config.E, factor |-> config.factor,
          reference_value |-> (config.C * config.factor + config.E) * Unit]
    ELSE [C |-> REFERENCE_POINT_C, E |-> REFERENCE_POINT_E, factor |-> CONVERSION_FACTOR,
          reference_value |-> (REFERENCE_POINT_C * CONVERSION_FACTOR + REFERENCE_POINT_E) * Unit]

\* SurveyPointCalculator.calculate_survey_point_value
calculate_survey_point_value(calc, c_value, e_value) == c_value * calc.factor + e_value

\* a faulty calculator: the difference taken the other way round
calculate_distance_reversed(calc, c_value, e_value) ==
    calculate_survey_point_value(calc, c_value, e_value) - calc.reference_value

\* SurveyPointCalculator.calculate_distance_from_entrance
calculate_distance_from_entrance(calc, c_value, e_value) ==
    calc.reference_value - calculate_survey_point_value(calc, c_value, e_value)

\* the survey points handed to format_survey_point: whole and fractional majors,
\* minors that are zero, whole, fractional and negative
Majors == { 0, 254 * Unit, -2 * Unit, 254 * Unit + Unit \div 2 }
Minors == { 0, 19 * Unit, -3 * Unit, 19 * Unit + 4 * (Unit \div 10), -(Unit \div 2), Unit \div 4 }
SurveyPoints == { [given |-> TRUE, c_value |-> c, e_value |-> e] : c \in Majors, e \in Minors }

SurveyInit ==
    /\ NoiseIdle
    /\ \/ survey_given = NoPoint /\ survey_point_str \in Texts
       \/ survey_given \in SurveyPoints /\ survey_point_str = <<>>
    /\ survey = [status |-> "none", c_value |-> 0, e_value |-> 0]
    /\ survey_calc \in { SurveyPointCalculator(config) : config \in Configs }
    /\ survey_distance = NoDistance
    /\ shown = "none"
    /\ VtkIdle
    /\ BatchIdle
    /\ LmrIdle

\* survey_calc.format_survey_point(c_value, e_value)
FormatSurveyPoint ==
    /\ survey_given.given /\ survey_point_str = <<>>
    /\ survey_point_str' = format_survey_point(survey_given.c_value, survey_given.e_value)
    /\ UNCHANGED <<survey, survey_calc, survey_given, survey_distance, shown, vtkVars, batchVars, lmrVars, noiseVars>>

\* survey_calc.parse_survey_point(survey_point_str)
ParseSurveyPoint ==
    /\ survey.status = "none"
    /\ ~survey_given.given \/ survey_point_str # <<>>
    /\ survey' = parse_survey_point(survey_point_str)
    /\ UNCHANGED <<survey_point_str, survey_calc, survey_given, survey_distance, shown, vtkVars, batchVars, lmrVars, noiseVars>>

\* survey_calc.calculate_distance_from_entrance(c_value, e_value)
CalculateDistance ==
    /\ survey.status = "ok" /\ ~survey_distance.called
    /\ survey_distance' =
          [called |-> TRUE,
           value |-> calculate_distance_from_entrance(survey_calc, survey.c_value, survey.e_value)]
    /\ UNCHANGED <<survey_point_str, survey, survey_calc, survey_given, shown, vtkVars, batchVars, lmrVars, noiseVars>>

SurveyNext == FormatSurveyPoint \/ ParseSurveyPoint \/ CalculateDistance

SurveySpec == SurveyInit /\ [][SurveyNext]_vars

PlusCount(s) == Cardinality({ i \in 1..Len(s) : s[i] = "+" })
PlusAt(s) == CHOOSE i \in 1..Len(s) : s[i] = "+"
Major(s) == SubSeq(s, 1, PlusAt(s) - 1)
Minor(s) == SubSeq(s, PlusAt(s) + 1, Len(s))
WellFormed(s) == PlusCount(s) = 1 /\ PyFloat(Major(s)).ok /\ PyFloat(Minor(s)).ok

\* C10: parse_survey_point succeeds exactly when the text has exactly one "+" and
\* both sides parse as numbers, and then returns (major, minor); for every other
\* text it fails with ValueError and returns no value.
C10_ParseExactly ==
    survey.status # "none" =>
        IF WellFormed(survey_point_str)
        THEN survey = Parsed(PyFloat(Major(survey_point_str)).val,
                             PyFloat(Minor(survey_point_str)).val)
        ELSE survey = FormatError
C10_Witness ==
    /\ survey.status = "ok"
    /\ survey_point_str = << "5", "+", "1", "." >>
    /\ survey.c_value = 5 * Pow10(MaxTextLen) /\ survey.e_value = Pow10(MaxTextLen)

\* C11: a valid survey point (whole major, any minor) that is formatted and then
\* parsed comes back as the same point.
C11_SurveyRoundTrip ==
    (survey_given.given /\ IsIntegral(survey_given.c_value) /\ survey.status # "none") =>
        survey = Parsed(survey_given.c_value, survey_given.e_value)
C11_Witness ==
    /\ survey_point_str = << "2", "5", "4", "+", "-", "0", ".", "5" >>
    /\ survey = Parsed(254 * Unit, -(Unit \div 2))
    /\ survey_given.given

\* C12: the distance returned is reference_value - (major * factor + minor), where
\* reference_value is the reference major * factor + the reference minor, which is
\* 5104 with the defaults 255, 4 and 20.
C12_Distance ==
    /\ survey_calc.reference_value = (survey_calc.C * survey_calc.factor + survey_calc.E) * Unit
    /\ (survey_calc.C = 255 /\ survey_calc.E = 4 /\ survey_calc.factor = 20)
          => survey_calc.reference_value = 5104 * Unit
    /\ survey_distance.called =>
          survey_distance.value =
              survey_calc.reference_value - (survey.c_value * survey_calc.factor + survey.e_value)
C12_Witness ==
    /\ survey_distance.called
    /\ survey_calc.reference_value = 5104 * Unit
    /\ survey.c_value = 254 * Unit /\ survey.e_value = 19 * Unit + 4 * (Unit \div 10)
    /\ survey_distance.value = 4 * Unit + 6 * (Unit \div 10)

(***************************************************************************)
(* Batch VTK generation: display_vtk_generation of app.py and of           *)
(* src/ui/vtk.py, and VTKConverter.convert_csv_to_vtk.                     *)
(*                                                                         *)
(* A file name is a sequence of characters; the extension ".csv" is one    *)
(* symbol.  The 3D coordinates are kept symbolic: a point is the side, the *)
(* distance and the drilling length that determine it.                     *)
(***************************************************************************)
None == "None"
Sides == { "L", "M", "R" }

UpperChar(c) == CASE c = "l" -> "L" [] c = "m" -> "M" [] c = "r" -> "R" [] OTHER -> c
\* str.upper()
Upper(s) == [i \in 1..Len(s) |-> UpperChar(s[i])]

\* sub in s
Contains(s, sub) == \E i \in 0..(Len(s) - Len(sub)) : SubSeq(s, i + 1, i + Len(sub)) = sub
\* s.endswith(sub)
EndsWith(s, sub) == Len(s) >= Len(sub) /\ SubSeq(s, Len(s) - Len(sub) + 1, Len(s)) = sub

\* os.path.splitext(base)[0]
SplitExt(base) == IF base # <<>> /\ base[Len(base)] = ".csv" THEN SubSeq(base, 1, Len(base) - 1) ELSE base

\* for part in parts: if part.upper() in ['L', 'M', 'R']: return part.upper()
FirstSide(parts) ==
    LET hits == { i \in 1..Len(parts) : Len(parts[i]) = 1 /\ UpperChar(parts[i][1]) \in Sides }
    IN  IF hits = {} THEN None ELSE UpperChar(parts[First(hits)][1])

\* VTKConverter.detect_lmr_type
detect_lmr_type(filename) ==
    LET name == SplitExt(filename)
        name_upper == Upper(name)
        inner(sep) == { lmr \in Sides : Contains(name_upper, << sep, lmr, sep >>) }
        final(sep) == { lmr \in Sides : EndsWith(name_upper, << sep, lmr >>) }
        pick(S) == IF "L" \in S THEN "L" ELSE IF "M" \in S THEN "M" ELSE "R"
    IN  IF FirstSide(Split(name, "_")) # None THEN FirstSide(Split(name, "_"))
        ELSE IF FirstSide(Split(name, "-")) # None THEN FirstSide(Split(name, "-"))
        ELSE IF inner("_") # {} THEN pick(inner("_"))
        ELSE IF inner("-") # {} THEN pick(inner("-"))
        ELSE IF final("_") # {} THEN pick(final("_"))
        ELSE IF final("-") # {} THEN pick(final("-"))
        ELSE None

\* str.isdigit()
IsDigit(s) == s # <<>> /\ IsDigits(s)
\* str.zfill(2) of digits
ZFill2(s) == IF Len(s) = 0 THEN << "0", "0" >> ELSE IF Len(s) = 1 THEN << "0" >> \o s ELSE s

\* a faulty converter: month and day are written as they stand in the name
generate_vtk_filename_unpadded(csv_file) ==
    LET parts == Split(SplitExt(csv_file), "_")
        dated == /\ Len(parts) >= 3
                 /\ Len(parts[1]) = 4 /\ IsDigit(parts[1])
                 /\ IsDigit(parts[2]) /\ IsDigit(parts[3])
                 /\ 1 <= DigitsValue(parts[2]) /\ DigitsValue(parts[2]) <= 12
                 /\ 1 <= DigitsValue(parts[3]) /\ DigitsValue(parts[3]) <= 31
    IN  << "Drill-", IF detect_lmr_type(csv_file) = None THEN "X" ELSE detect_lmr_type(csv_file), "_ana_" >>
            \o (IF dated THEN SubSeq(parts[1], 3, 4) \o << "." >> \o parts[2] \o << "." >> \o parts[3]
                ELSE << "0", "0", ".", "0", "0", ".", "0", "0" >>)
            \o << ".vtk" >>

\* a faulty converter: the date is never taken from the name
generate_vtk_filename_undated(csv_file) ==
    << "Drill-", IF detect_lmr_type(csv_file) = None THEN "X" ELSE detect_lmr_type(csv_file), "_ana_" >>
        \o << "0", "0", ".", "0", "0", ".", "0", "0", ".vtk" >>

\* VTKConverter.generate_vtk_filename
generate_vtk_filename(csv_file) ==
    LET name == SplitExt(csv_file)
        lmr_type == IF detect_lmr_type(csv_file) = None THEN "X" ELSE detect_lmr_type(csv_file)
        parts == Split(name, "_")
        dated == /\ Len(parts) >= 3
                 /\ Len(parts[1]) = 4 /\ IsDigit(parts[1])
                 /\ IsDigit(parts[2]) /\ IsDigit(parts[3])
                 /\ 1 <= DigitsValue(parts[2]) /\ DigitsValue(parts[2]) <= 12
                 /\ 1 <= DigitsValue(parts[3]) /\ DigitsValue(parts[3]) <= 31
        date_str == IF dated
                    THEN SubSeq(parts[1], 3, 4) \o << "." >> \o ZFill2(parts[2]) \o << "." >> \o ZFill2(parts[3])
                    ELSE << "0", "0", ".", "0", "0", ".", "0", "0" >>
    IN  << "Drill-", lmr_type, "_ana_" >> \o date_str \o << ".vtk" >>

\* the keyword parameters of VTKConverter.convert_csv_to_vtk
ConvertParams == { "csv_file", "distance_from_entrance", "output_vtk_path", "output_csv_path", "lmr_type" }

\* the keywords each handler passes to convert_csv_to_vtk
CallKeywords(e) ==
    IF e = "app" THEN ConvertParams
    ELSE ConvertParams \cup { "reference_distance", "direction_angle", "z_elevations", "sampling_interval" }

\* date_str of src/ui/vtk.py: the project date as %Y%m%d
ProjectDateStr == "20250827"

\* output_vtk_path and output_csv_path of each handler
OutputVtkPath(e, file_name) ==
    IF e = "app" THEN << "output/" >> \o generate_vtk_filename(file_name)
    ELSE << "output/", ProjectDateStr, "_" >> \o SelectSeq(file_name, LAMBDA c : c # ".csv") \o << ".vtk" >>
OutputCsvPath(e, file_name) ==
    IF e = "app" THEN << "output/" >> \o [i \in 1..Len(file_name) |-> IF file_name[i] = ".csv" THEN "_3d.csv" ELSE file_name[i]]
    ELSE << "output/", ProjectDateStr, "_" >> \o SelectSeq(file_name, LAMBDA c : c # ".csv") \o << "_3d.csv" >>

\* A data frame: its column names and its rows of cells; a cell is a number in
\* tenths or NaN.  "Length" stands for the drilling-length column name.
NaN == [nan |-> TRUE, v |-> 0]
Number(v) == [nan |-> FALSE, v |-> v]
\* df.to_csv(tmp, index=False): a missing value is written as the empty text
to_csv(df) ==
    [header |-> df.columns,
     rows |-> [i \in 1..Len(df.rows) |->
                 [j \in 1..Len(df.rows[i]) |->
                    IF df.rows[i][j].nan THEN <<>> ELSE FormatFloat(df.rows[i][j].v)]]]

\* header.index(col), then the search by alias; 0 stands for None
LengthIndex(header) ==
    IF \E i \in 1..Len(header) : header[i] = "Length" THEN First({ i \in 1..Len(header) : header[i] = "Length" })
    ELSE 0
EnergyIndex(header) ==
    IF \E i \in 1..Len(header) : header[i] = "Lowess_Trend" THEN First({ i \in 1..Len(header) : header[i] = "Lowess_Trend" })
    ELSE 0
Last(S) == IF S = {} THEN 0 ELSE CHOOSE i \in S : \A j \in S : j <= i
AliasLengthIndex(header) == Last({ i \in 1..Len(header) : header[i] \in { "Length", "TD" } })
AliasEnergyIndex(header) == Last({ i \in 1..Len(header) : header[i] \in { "Lowess_Trend", "Lowess" } })

\* the rows of a CSV that read as two numbers, in order
RECURSIVE ReadRows(_, _, _)
ReadRows(rows, li, ei) ==
    IF rows = <<>> THEN <<>>
    ELSE LET row == Head(rows)
             good == /\ li <= Len(row) /\ ei <= Len(row)
                     /\ ParseFloat(row[li]).ok /\ ParseFloat(row[ei]).ok
         IN  (IF good THEN << << ParseFloat(row[li]).val, ParseFloat(row[ei]).val >> >> ELSE <<>>)
                \o ReadRows(Tail(rows), li, ei)

\* length_index and energy_index as read_csv_data settles them
length_index(header) ==
    IF LengthIndex(header) # 0 /\ EnergyIndex(header) # 0 THEN LengthIndex(header)
    ELSE AliasLengthIndex(header)
energy_index(header) ==
    IF LengthIndex(header) # 0 /\ EnergyIndex(header) # 0 THEN EnergyIndex(header)
    ELSE AliasEnergyIndex(header)

\* a faulty reader: the energies are collected last row first
ReadData_reversed(kept) ==
    [raised |-> "none",
     drilling_lengths |-> [i \in 1..Len(kept) |-> kept[i][1]],
     energy_values |-> [i \in 1..Len(kept) |-> kept[Len(kept) + 1 - i][2]]]

\* return drilling_lengths, energy_values
ReadData(kept) ==
    [raised |-> "none",
     drilling_lengths |-> [i \in 1..Len(kept) |-> kept[i][1]],
     energy_values |-> [i \in 1..Len(kept) |-> kept[i][2]]]

\* VTKConverter.read_csv_data
read_csv_data(csv) ==
    IF length_index(csv.header) = 0 \/ energy_index(csv.header) = 0
    THEN [raised |-> "ValueError", drilling_lengths |-> <<>>, energy_values |-> <<>>]
    ELSE ReadData(ReadRows(csv.rows, length_index(csv.header), energy_index(csv.header)))

\* the column names of the companion CSV; the two Japanese texts are spelled by
\* their code points (elevation: U+6A19 U+9AD8, drilling energy: U+7A7F U+5B54
\* U+30A8 U+30CD U+30EB U+30AE U+30FC)
ElevationColumn == "Z:<U+6A19 U+9AD8>(m)"
DrillingEnergyColumn == "<U+7A7F U+5B54 U+30A8 U+30CD U+30EB U+30AE U+30FC>"
\* the name create_vtk_file and _create_simple_vtk_file give the scalar array
ScalarName == "Energy"

\* a faulty save_computed_csv: the last column is named after the VTK scalar array
save_computed_csv_energy(pts, energy_values, lmr_type, distance) ==
    [kind |-> "csv", lmr_type |-> lmr_type, distance |-> distance,
     header |-> << "X(m)", "Y(m)", ElevationColumn, ScalarName >>,
     rows |-> [i \in 1..Min(Len(pts), Len(energy_values)) |-> << pts[i], energy_values[i] >>]]

\* VTKConverter.save_computed_csv: the comment row (side and distance), the
\* header row and zip(points, energy_values)
save_computed_csv(pts, energy_values, lmr_type, distance) ==
    [kind |-> "csv", lmr_type |-> lmr_type, distance |-> distance,
     header |-> << "X(m)", "Y(m)", ElevationColumn, DrillingEnergyColumn >>,
     rows |-> [i \in 1..Min(Len(pts), Len(energy_values)) |-> << pts[i], energy_values[i] >>]]

\* the document VTKConverter.create_vtk_file writes for these points
VtkDocument(pts, energy_values) ==
    [kind |-> "vtk", points |-> pts, energy |-> energy_values, scalar_name |-> ScalarName]

\* open(path, 'w') and the write
WriteFile(dir, path, doc) == [q \in DOMAIN dir \cup { path } |-> IF q = path THEN doc ELSE dir[q]]

\* the end of convert_csv_to_vtk: save_computed_csv, then create_vtk_file, which
\* raises for fewer than 2 points
SaveBoth(dir, pts, energy_values, distance, output_vtk_path, output_csv_path, lmr_type) ==
    IF Len(pts) < 2
    THEN [raised |-> "ValueError",
          output |-> WriteFile(dir, output_csv_path,
                               save_computed_csv(pts, energy_values, lmr_type, distance))]
    ELSE [raised |-> "none",
          output |-> WriteFile(WriteFile(dir, output_csv_path,
                                         save_computed_csv(pts, energy_values, lmr_type, distance)),
                               output_vtk_path, VtkDocument(pts, energy_values))]

\* the outcome of convert_csv_to_vtk with the converter as the call leaves it
Outcome(self, r) == [self |-> self, raised |-> r.raised, output |-> r.output]

\* convert_csv_to_vtk once the CSV is read and the base coordinates are taken
ConvertData(self, dir, data, base, distance, output_vtk_path, output_csv_path, lmr_type) ==
    IF data.raised # "none" THEN [self |-> self, raised |-> data.raised, output |-> dir]
    ELSE IF base.raised # "none" THEN [self |-> base.self, raised |-> base.raised, output |-> dir]
    ELSE Outcome(base.self,
                 SaveBoth(dir,
                          calculate_3d_points(data.drilling_lengths, base.x_base, base.y_base,
                                              base.z_elevation, base.angle),
                          data.energy_values, distance, output_vtk_path, output_csv_path, lmr_type))

\* VTKConverter.convert_csv_to_vtk, called with an lmr_type
convert_csv_to_vtk(self, dir, csv_file, distance, output_vtk_path, output_csv_path, lmr_type) ==
    ConvertData(self, dir, read_csv_data(csv_file), get_coordinates_for_lmr(self, lmr_type, distance),
                distance, output_vtk_path, output_csv_path, lmr_type)

\* a faulty handler: the error is swallowed without being recorded
record_error_dropped(errors, file_name, e) == errors

\* error_files.append((file_name, str(e)))
record_error(errors, file_name, e) == Append(errors, << file_name, e >>)

BatchStart ==
    [converter |-> converter, success_files |-> <<>>, error_files |-> <<>>, generated_files |-> EmptyMap,
     temp_files |-> {}, output |-> EmptyMap]

\* the call of convert_csv_to_vtk: TypeError for a keyword it does not have
CallConvert(self, e, dir, csv_file, distance, output_vtk_path, output_csv_path, lmr_type) ==
    IF CallKeywords(e) \subseteq ConvertParams
    THEN convert_csv_to_vtk(self, dir, csv_file, distance, output_vtk_path, output_csv_path, lmr_type)
    ELSE [self |-> self, raised |-> "TypeError", output |-> dir]

\* what follows the call: unlink and the success entries, or the except clause
\* (the temporary file stays)
AfterConvert(st, file_name, lmr_type, vtk_path, csv_path, tmp, r) ==
    IF r.raised = "none"
    THEN [st EXCEPT !.converter = r.self,
                    !.output = r.output,
                    !.success_files = Append(@, file_name),
                    !.generated_files = WriteFile(@, file_name,
                        [vtk |-> vtk_path, csv |-> csv_path, lmr_type |-> lmr_type])]
    ELSE [st EXCEPT !.converter = r.self,
                    !.output = r.output,
                    !.temp_files = @ \cup { tmp },
                    !.error_files = record_error(@, file_name, r.raised)]

\* the temporary CSV file written for a frame
TempFile(file_name, df) == [of |-> file_name, csv |-> to_csv(df)]

\* the pass for a file whose side is lmr_type
Convert(st, e, file_name, df, distance, lmr_type) ==
    AfterConvert(st, file_name, lmr_type,
                 OutputVtkPath(e, file_name), OutputCsvPath(e, file_name),
                 TempFile(file_name, df),
                 CallConvert(st.converter, e, st.output, to_csv(df), distance,
                             OutputVtkPath(e, file_name), OutputCsvPath(e, file_name), lmr_type))

\* one pass of the body of "for file_name in selected_files"
Iteration(st, e, file_name, df, distance) ==
    IF detect_lmr_type(file_name) = None
    THEN [st EXCEPT !.error_files = record_error(@, file_name, "undetected")]
    ELSE Convert(st, e, file_name, df, distance, detect_lmr_type(file_name))

\* the files of the model: one for each side, a second one of the L side of the
\* same day, and one of no side
Stamp == << "2", "0", "2", "5", "_", "0", "8", "_", "2", "7", "_" >>
FileOf(tag) == Stamp \o tag \o << ".csv" >>
Sided == { FileOf(<< "L" >>), FileOf(<< "M" >>), FileOf(<< "R" >>) }
SecondL == FileOf(<< "1", "_", "L" >>)
FileNames == Sided \cup { SecondL, FileOf(<< "d", "a", "t", "a" >>) }

\* x < y of two file names: the order of str, character by character
CharRank(c) ==
    CASE c = ".csv" -> 0 [] c \in Digits -> 1 + DigitVal(c)
      [] c = "L" -> 11 [] c = "M" -> 12 [] c = "R" -> 13 [] c = "_" -> 14
      [] c = "a" -> 15 [] c = "d" -> 16 [] c = "t" -> 17
NameLess(x, y) ==
    \E i \in 1..Len(y) :
        /\ \A j \in 1..(i - 1) : j <= Len(x) /\ x[j] = y[j]
        /\ i > Len(x) \/ CharRank(x[i]) < CharRank(y[i])

\* sort_files_lmr: sorted by (get_lmr_order(x), x)
get_lmr_order(filename) ==
    LET shows(lmr) == Contains(filename, << "_", lmr, "_" >>) \/ EndsWith(filename, << "_", lmr, ".csv" >>)
    IN  IF shows("L") THEN 0 ELSE IF shows("M") THEN 1 ELSE IF shows("R") THEN 2 ELSE 3
KeyLess(x, y) ==
    \/ get_lmr_order(x) < get_lmr_order(y)
    \/ get_lmr_order(x) = get_lmr_order(y) /\ NameLess(x, y)
RECURSIVE sort_files_lmr(_)
sort_files_lmr(files) ==
    IF files = {} THEN <<>>
    ELSE LET f == CHOOSE g \in files : \A h \in files \ { g } : KeyLess(g, h)
         IN  << f >> \o sort_files_lmr(files \ { f })

\* the data frames of the model: up to MaxRows good rows, frames with a missing
\* drilling length, a frame under the alias column names, and one without the
\* energy column
Row(i, good) == << IF good THEN Number(5 * i) ELSE NaN, Number(1000 + 25 * i) >>
Frame(columns, goods) == [columns |-> columns, rows |-> [i \in 1..Len(goods) |-> Row(i, goods[i])]]
GoodFrame == Frame(<< "Length", "Lowess_Trend" >>, << TRUE, TRUE >>)
DataFrames ==
    { Frame(<< "Length", "Lowess_Trend" >>, [i \in 1..k |-> TRUE]) : k \in 0..MaxRows }
        \cup { Frame(<< "Length", "Lowess_Trend" >>, << TRUE, FALSE >>),
               Frame(<< "Length", "Lowess_Trend" >>, << FALSE, TRUE, TRUE >>),
               Frame(<< "Lowess", "TD" >>, << TRUE, TRUE >>),
               [columns |-> << "Length" >>, rows |-> << << Number(5) >>, << Number(10) >> >>] }

BatchInit ==
    /\ NoiseIdle
    /\ entry \in { "app", "ui" }
    /\ \E sel \in SUBSET FileNames : \E frames \in [sel \cap Sided -> DataFrames] :
            /\ data_source = [f \in FileNames |-> IF f \in sel \cap Sided THEN frames[f] ELSE GoodFrame]
            /\ selected_files = sort_files_lmr(sel)
    /\ distance_from_entrance \in { 0, 12380 }
    /\ pc = "idle"
    /\ idx = 0
    /\ success_files = <<>>
    /\ error_files = <<>>
    /\ generated_files = EmptyMap
    /\ temp_files = {}
    /\ output = EmptyMap
    /\ generated_vtk_files = EmptyMap
    /\ LmrIdle
    /\ VtkIdle
    /\ SurveyIdle

\* a faulty page: the generate button is shown whenever files are selected
GenerateVtkFiles_unguarded ==
    /\ pc = "idle"
    /\ selected_files # <<>>
    /\ success_files' = <<>>
    /\ error_files' = <<>>
    /\ generated_files' = EmptyMap
    /\ pc' = "loop"
    /\ idx' = 1
    /\ UNCHANGED <<entry, data_source, selected_files, distance_from_entrance,
                   temp_files, output, generated_vtk_files, vtkVars, surveyVars, lmrVars, noiseVars>>

\* the generate button of display_vtk_generation, shown when files are selected
\* and the distance is positive: the three collections are made
GenerateVtkFiles ==
    /\ pc = "idle"
    /\ selected_files # <<>> /\ distance_from_entrance > 0
    /\ success_files' = BatchStart.success_files
    /\ error_files' = BatchStart.error_files
    /\ generated_files' = BatchStart.generated_files
    /\ pc' = "loop"
    /\ idx' = 1
    /\ UNCHANGED <<entry, data_source, selected_files, distance_from_entrance,
                   temp_files, output, generated_vtk_files, vtkVars, surveyVars, lmrVars, noiseVars>>

\* one pass of "for file_name in selected_files"
ConvertFile ==
    /\ pc = "loop" /\ idx <= Len(selected_files)
    /\ LET st == Iteration([converter |-> converter,
                            success_files |-> success_files, error_files |-> error_files,
                            generated_files |-> generated_files, temp_files |-> temp_files,
                            output |-> output],
                           entry, selected_files[idx], data_source[selected_files[idx]],
                           distance_from_entrance)
       IN  /\ success_files' = st.success_files
           /\ error_files' = st.error_files
           /\ generated_files' = st.generated_files
           /\ temp_files' = st.temp_files
           /\ output' = st.output
           /\ converter' = st.converter
    /\ idx' = idx + 1
    /\ UNCHANGED <<entry, data_source, selected_files, distance_from_entrance, pc,
                   generated_vtk_files, coords_log, lmr_ret, vtkVars, surveyVars, noiseVars>>

\* after the loop: the session keeps generated_files when a file succeeded
ShowResults ==
    /\ pc = "loop" /\ idx > Len(selected_files)
    /\ generated_vtk_files' = IF success_files # <<>> THEN generated_files
                              ELSE generated_vtk_files
    /\ pc' = "done"
    /\ UNCHANGED <<entry, data_source, selected_files, distance_from_entrance, idx,
                   success_files, error_files, generated_files, temp_files, output,
                   vtkVars, surveyVars, lmrVars, noiseVars>>

BatchNext == GenerateVtkFiles \/ ConvertFile \/ ShowResults

BatchSpec == BatchInit /\ [][BatchNext]_vars

Range(s) == { s[i] : i \in 1..Len(s) }
Failed == { error_files[i][1] : i \in 1..Len(error_files) }

\* C5: in the batch loop every file passed so far is in exactly one of the success
\* list and the error list, whatever failed before it; after the loop this holds
\* of every selected file, and successes + failures = number of selected files.
C5_BatchIsolation ==
    /\ pc = "loop" =>
          /\ Len(success_files) + Len(error_files) = idx - 1
          /\ Range(success_files) \cup Failed = { selected_files[i] : i \in 1..(idx - 1) }
    /\ pc = "done" =>
          /\ Len(success_files) + Len(error_files) = Len(selected_files)
          /\ \A f \in Range(selected_files) : (f \in Range(success_files)) # (f \in Failed)
          /\ Range(success_files) \cup Failed = Range(selected_files)
C5_Witness ==
    /\ pc = "done" /\ entry = "app"
    /\ Len(selected_files) = 3
    /\ selected_files[1] \in Failed
    /\ error_files[1][2] = "ValueError"
    /\ Range(success_files) = { selected_files[2], selected_files[3] }

\* the samples of a frame that read as numbers
ValidSamples(df) == Len(read_csv_data(to_csv(df)).drilling_lengths)
ValidFrame(df) == read_csv_data(to_csv(df)).raised = "none" /\ ValidSamples(df) >= 2
\* what the batch of the one file f leaves in the output directory
Alone(f) == Iteration(BatchStart, entry, f, data_source[f], distance_from_entrance).output

OneShortOfThree ==
    /\ selected_files = sort_files_lmr(Sided)
    /\ \E bad \in Sided :
          /\ read_csv_data(to_csv(data_source[bad])).raised = "none"
          /\ ValidSamples(data_source[bad]) < 2
          /\ \A f \in Sided \ { bad } : ValidFrame(data_source[f])

\* C6: a batch of the three files L, M, R of which exactly one has fewer than 2
\* valid samples reports 2 successes and 1 failure, and the outputs of the two
\* successful files are those of converting each of them alone.
C6_OneShortOfThree ==
    (pc = "done" /\ OneShortOfThree) =>
        /\ Len(success_files) = 2
        /\ Len(error_files) = 1
        /\ \A f \in Range(success_files) :
              \A p \in DOMAIN Alone(f) : p \in DOMAIN output /\ output[p] = Alone(f)[p]


(***************************************************************************)
(* The methods of the session's converter and of its calculator, called    *)
(* one after another in any order.                                         *)
(***************************************************************************)
MaxSamples == 2

\* distances from the entrance, around the reference distance and at 1238 m
Distances == { 9650, 9660, 9670, 12380 }
\* the distances a batch is run at
BatchDistances == { 9670, 12380 }
\* the calls of calculate_coordinates: with the defaults, and one with both
\* optional arguments given
CoordinateCalls ==
    { [distance |-> d, direction_angle |-> NoArg, reference_distance |-> NoArg] : d \in Distances }
        \cup { [distance |-> 9660, direction_angle |-> Arg(90000), reference_distance |-> Arg(10000)] }
\* drilling lengths: 0 m and 1.5 m
Depths == { 0, 15 }
DepthLists == SeqsUpTo(Depths, MaxSamples)
LmrTypes == { "L", "M", "R", "X" }

LmrInit ==
    /\ NoiseIdle
    /\ converter \in { VTKConverter(config) : config \in LmrConfigs }
    /\ coords_log = EmptyMap
    /\ lmr_ret = NoCall
    /\ VtkIdle
    /\ SurveyIdle
    /\ BatchIdle

Call(op, args, result) == [op |-> op, args |-> args, result |-> result]
Logged(log, call, coords) ==
    [k \in DOMAIN log \cup { call } |-> IF k = call THEN coords ELSE log[k]]

\* converter.calculator.calculate_coordinates(distance, direction_angle, reference_distance)
CalculateCoordinates ==
    \E call \in CoordinateCalls :
        LET r == calculate_coordinates(converter.calculator, call.distance,
                                       call.direction_angle, call.reference_distance)
        IN  /\ converter' = [converter EXCEPT !.calculator = r.self]
            /\ coords_log' = Logged(coords_log, call, r.coords)
            /\ lmr_ret' = Call("calculate_coordinates", call, r.coords)
            /\ UNCHANGED <<vtkVars, surveyVars, batchVars, noiseVars>>

\* converter.get_coordinates_for_lmr(lmr_type, distance_from_entrance)
GetCoordinatesForLmr ==
    \E lmr_type \in LmrTypes : \E distance \in BatchDistances :
        LET r == get_coordinates_for_lmr(converter, lmr_type, distance)
        IN  /\ converter' = r.self
            /\ lmr_ret' = Call("get_coordinates_for_lmr",
                               [lmr_type |-> lmr_type, distance |-> distance],
                               [raised |-> r.raised, x_base |-> r.x_base, y_base |-> r.y_base,
                                angle |-> r.angle, z_elevation |-> r.z_elevation])
            /\ UNCHANGED <<coords_log, vtkVars, surveyVars, batchVars, noiseVars>>

\* converter.calculate_3d_points(drilling_lengths, x_base, y_base, z_elevation, angle),
\* with the tuple get_coordinates_for_lmr returned
Calculate3dPoints ==
    /\ lmr_ret.op = "get_coordinates_for_lmr" /\ lmr_ret.result.raised = "none"
    /\ \E drilling_lengths \in DepthLists :
          lmr_ret' = Call("calculate_3d_points",
                          [drilling_lengths |-> drilling_lengths,
                           x_base |-> lmr_ret.result.x_base, y_base |-> lmr_ret.result.y_base,
                           z_elevation |-> lmr_ret.result.z_elevation, angle |-> lmr_ret.result.angle],
                          [raised |-> "none",
                           points |-> calculate_3d_points(drilling_lengths,
                                          lmr_ret.result.x_base, lmr_ret.result.y_base,
                                          lmr_ret.result.z_elevation, lmr_ret.result.angle)])
    /\ UNCHANGED <<converter, coords_log, vtkVars, surveyVars, batchVars, noiseVars>>

\* the lists of distances of a batch calculation
DistanceLists == { <<>>, << 12380 >>, << 9670, 12380 >> }
\* converter.calculator.calculate_batch(distances, [DIRECTION_ANGLE] * len(distances)),
\* without a reference distance or with 967
CalculateBatch ==
    /\ \E distances \in DistanceLists : \E reference_distance \in { NoArg, Arg(9670) } :
          LET angles == [i \in 1..Len(distances) |-> converter.calculator.DIRECTION_ANGLE]
          IN  lmr_ret' = Call("calculate_batch",
                              [distances |-> distances, angles |-> angles,
                               reference_distance |-> reference_distance],
                              [rows |-> calculate_batch(converter.calculator, distances, angles,
                                                        reference_distance)])
    /\ UNCHANGED <<converter, coords_log, vtkVars, surveyVars, batchVars, noiseVars>>

\* converter.convert_csv_to_vtk(csv_file, distance, output_vtk_path, output_csv_path, lmr_type)
ConvertedPaths == [vtk |-> << "out", ".vtk" >>, csv |-> << "out", "_3d", ".csv" >>]
\* a frame of three rows, the second without its energy
GappedFrame ==
    [columns |-> << "Length", "Lowess_Trend" >>,
     rows |-> << Row(1, TRUE), << Number(10), NaN >>, Row(3, TRUE) >>]
ConvertFrames == DataFrames \cup { GappedFrame }
ConvertCsvToVtk ==
    \E df \in ConvertFrames : \E lmr_type \in { "M" } : \E distance \in { 12380 } :
        LET r == convert_csv_to_vtk(converter, EmptyMap, to_csv(df), distance,
                                    ConvertedPaths.vtk, ConvertedPaths.csv, lmr_type)
        IN  /\ converter' = r.self
            /\ lmr_ret' = Call("convert_csv_to_vtk",
                               [df |-> df, lmr_type |-> lmr_type, distance |-> distance],
                               [raised |-> r.raised, output |-> r.output])
            /\ UNCHANGED <<coords_log, vtkVars, surveyVars, batchVars, noiseVars>>

LmrNext ==
    \/ CalculateCoordinates \/ GetCoordinatesForLmr \/ Calculate3dPoints
    \/ ConvertCsvToVtk \/ CalculateBatch

LmrSpec == LmrInit /\ [][LmrNext]_vars

\* the calls logged that left both optional arguments out
DefaultCalls == { k \in DOMAIN coords_log : ~k.direction_angle.given /\ ~k.reference_distance.given }
DefaultFrame == converter = VTKConverter(NoLmrConfig)
Near(v, expected) == Abs(v - expected) <= 1000

\* C13: with the default reference frame (reference distance 967, direction angle
\* 65.588, default base coordinates) calculate_coordinates(1238) is
\* L = (-907.462, 845.150), M = (-905.395, 849.703), R = (-903.329, 854.256),
\* each coordinate within 0.001.
C13_Fixture ==
    \A k \in DefaultCalls :
        (DefaultFrame /\ k.distance = 12380) =>
            /\ Near(coords_log[k].L_X, -907462000) /\ Near(coords_log[k].L_Y, 845150000)
            /\ Near(coords_log[k].M_X, -905395000) /\ Near(coords_log[k].M_Y, 849703000)
            /\ Near(coords_log[k].R_X, -903329000) /\ Near(coords_log[k].R_Y, 854256000)
C13_Witness ==
    /\ DefaultFrame
    /\ converter.calculator.REFERENCE_DISTANCE = 9670
    /\ converter.calculator.DIRECTION_ANGLE = 65588
    /\ \E k \in DefaultCalls : k.distance = 12380 /\ coords_log[k].L_X = -907462000
    /\ lmr_ret.op = "calculate_coordinates"

Outputs == { "L_X", "L_Y", "M_X", "M_Y", "R_X", "R_Y" }
\* the change of an output between two logged calls, in millimetres
Delta(k1, k2, o) == (coords_log[k2][o] - coords_log[k1][o]) \div 1000

\* C14 as stated: equal steps of the distance give equal steps of each of the six
\* outputs, for calls with the same direction angle and reference distance.
C14_Affine ==
    \A k1 \in DefaultCalls : \A k2 \in DefaultCalls :
    \A k3 \in DefaultCalls : \A k4 \in DefaultCalls :
        (k2.distance - k1.distance = k4.distance - k3.distance) =>
            \A o \in Outputs : Delta(k1, k2, o) = Delta(k3, k4, o)

\* C14, amended: each output is an affine function of the distance rounded to the
\* millimetre, so the steps of an output are proportional to the steps of the
\* distance up to 0.001 for each step: (f(D2) - f(D1)) * (D4 - D3) and
\* (f(D4) - f(D3)) * (D2 - D1) differ by at most 0.001 * (|D2 - D1| + |D4 - D3|),
\* which for equal steps is a difference of at most 0.002.
C14_AffineRounded ==
    \A k1 \in DefaultCalls : \A k2 \in DefaultCalls :
    \A k3 \in DefaultCalls : \A k4 \in DefaultCalls :
        \A o \in Outputs :
            Abs(Delta(k1, k2, o) * (k4.distance - k3.distance)
                  - Delta(k3, k4, o) * (k2.distance - k1.distance))
                <= Abs(k4.distance - k3.distance) + Abs(k2.distance - k1.distance)
C14_Witness ==
    \E k1 \in DefaultCalls : \E k2 \in DefaultCalls : \E k3 \in DefaultCalls :
        /\ k1.distance = 9650 /\ k2.distance = 9660 /\ k3.distance = 9670
        /\ Delta(k1, k2, "L_X") = -910
        /\ Delta(k2, k3, "L_X") = -911

\* C15: calculate_3d_points returns one point for each drilling length, in the
\* order of the lengths (a greater length lies further along the bearing, equal
\* lengths give the same point), and a length of 0 gives exactly
\* (x_base, y_base, z_elevation).
C15_OnePointPerSample ==
    lmr_ret.op = "calculate_3d_points" =>
        /\ Len(lmr_ret.result.points) = Len(lmr_ret.args.drilling_lengths)
        /\ \A i \in 1..Len(lmr_ret.args.drilling_lengths) :
              /\ lmr_ret.args.drilling_lengths[i] = 0 =>
                    lmr_ret.result.points[i]
                        = << lmr_ret.args.x_base, lmr_ret.args.y_base, lmr_ret.args.z_elevation >>
              /\ lmr_ret.result.points[i][3] = lmr_ret.args.z_elevation
              /\ \A j \in 1..Len(lmr_ret.args.drilling_lengths) :
                    /\ lmr_ret.args.drilling_lengths[i] = lmr_ret.args.drilling_lengths[j]
                          => lmr_ret.result.points[i] = lmr_ret.result.points[j]
                    /\ lmr_ret.args.drilling_lengths[i] < lmr_ret.args.drilling_lengths[j]
                          => lmr_ret.result.points[i][1] > lmr_ret.result.points[j][1]
C15_Witness ==
    /\ lmr_ret.op = "calculate_3d_points"
    /\ lmr_ret.args.drilling_lengths = << 15, 0 >>
    /\ lmr_ret.args.x_base = -907462000
    /\ lmr_ret.result.points[2] = << -907462000, 845150000, 17300000 >>
    /\ lmr_ret.result.points[1][1] < -907462000

\* C16: calculate_3d_points fails with the insufficient-data error when it is
\* given fewer than 2 drilling lengths.
C16_FewerThanTwoFails ==
    (lmr_ret.op = "calculate_3d_points" /\ Len(lmr_ret.args.drilling_lengths) < 2)
        => lmr_ret.result.raised = "ValueError"

\* C17: calculate_coordinates, get_coordinates_for_lmr, calculate_3d_points and
\* convert_csv_to_vtk leave the converter (its elevations) and its calculator
\* (reference distance, direction angle, reference coordinates) as they were, and
\* a call of calculate_coordinates made again returns what it returned before.
C17_FrameUnchanged ==
    [][/\ converter' = converter
       /\ \A k \in DOMAIN coords_log \cap DOMAIN coords_log' : coords_log'[k] = coords_log[k]]_vars
C17_Witness ==
    /\ lmr_ret.op = "convert_csv_to_vtk" /\ lmr_ret.result.raised = "none"
    /\ \E k \in DOMAIN coords_log : k.direction_angle.given /\ k.direction_angle.v # converter.calculator.DIRECTION_ANGLE
    /\ \E k \in DefaultCalls : k.distance = 9660
    /\ converter = VTKConverter(NoLmrConfig)

\* the rows of a frame with a number in both the length and the energy column
Retained(df) ==
    LET Both(row) == /\ length_index(df.columns) <= Len(row) /\ energy_index(df.columns) <= Len(row)
                     /\ ~row[length_index(df.columns)].nan /\ ~row[energy_index(df.columns)].nan
    IN  SelectSeq(df.rows, Both)
LengthOf(df, row) == row[length_index(df.columns)].v
EnergyOf(df, row) == row[energy_index(df.columns)].v
\* the point of one drilling length from the base of a side at a distance
PointOf(base, length) ==
    calculate_3d_points(<< length >>, base.x_base, base.y_base, base.z_elevation, base.angle)[1]
\* a document written holds the retained rows kept, one sample for each, in order
Paired(doc, df, kept, base) ==
    IF doc.kind = "csv"
    THEN /\ Len(doc.rows) = Len(kept)
         /\ \A i \in 1..Len(kept) :
               doc.rows[i] = << PointOf(base, LengthOf(df, kept[i])), EnergyOf(df, kept[i]) >>
    ELSE /\ Len(doc.points) = Len(kept) /\ Len(doc.energy) = Len(kept)
         /\ \A i \in 1..Len(kept) :
               /\ doc.points[i] = PointOf(base, LengthOf(df, kept[i]))
               /\ doc.energy[i] = EnergyOf(df, kept[i])
ReadPaired(data, df, kept) ==
    /\ Len(data.drilling_lengths) = Len(kept) /\ Len(data.energy_values) = Len(kept)
    /\ \A i \in 1..Len(kept) :
          /\ data.drilling_lengths[i] = LengthOf(df, kept[i])
          /\ data.energy_values[i] = EnergyOf(df, kept[i])

\* C18: read_csv_data returns lengths and energies of equal number, one pair for
\* each row that has both numbers, in row order (a row lacking either is dropped
\* whole), and the i-th point and the i-th energy of the VTK document and of the
\* companion CSV are those of the i-th retained row.
C18_OrderAndPairing ==
    (lmr_ret.op = "convert_csv_to_vtk"
        /\ read_csv_data(to_csv(lmr_ret.args.df)).raised = "none") =>
        /\ ReadPaired(read_csv_data(to_csv(lmr_ret.args.df)), lmr_ret.args.df, Retained(lmr_ret.args.df))
        /\ \A path \in DOMAIN lmr_ret.result.output :
              Paired(lmr_ret.result.output[path], lmr_ret.args.df, Retained(lmr_ret.args.df),
                     get_coordinates_for_lmr(converter, lmr_ret.args.lmr_type, lmr_ret.args.distance))
C18_Witness ==
    /\ lmr_ret.op = "convert_csv_to_vtk" /\ lmr_ret.result.raised = "none"
    /\ lmr_ret.args.df = GappedFrame
    /\ DOMAIN lmr_ret.result.output = { ConvertedPaths.vtk, ConvertedPaths.csv }
    /\ lmr_ret.result.output[ConvertedPaths.vtk].energy = << 1025, 1075 >>
    /\ Len(lmr_ret.result.output[ConvertedPaths.vtk].points) = 2

\* C19: the output paths derived for two different files of one batch are
\* different, and when the batch is done the output directory still holds, for
\* every file converted, the documents of that file.
C19_DistinctOutputs ==
    /\ \A i \in 1..Len(selected_files) : \A j \in 1..Len(selected_files) :
          i # j =>
              /\ OutputVtkPath(entry, selected_files[i]) # OutputVtkPath(entry, selected_files[j])
              /\ OutputCsvPath(entry, selected_files[i]) # OutputCsvPath(entry, selected_files[j])
    /\ pc = "done" =>
          \A f \in Range(success_files) :
              /\ output[generated_files[f].vtk] = Alone(f)[generated_files[f].vtk]
              /\ output[generated_files[f].csv] = Alone(f)[generated_files[f].csv]

(***************************************************************************)
(* Naming the VTK file of a CSV file.                                      *)
(***************************************************************************)
\* the file names of the model: year, month and day tokens of several widths and
\* values, with or without a time of day, a side tag and a suffix, and names
\* without a date
Years == { << "2", "0", "2", "5" >>, << "2", "5" >> }
Months == { << "0", "8" >>, << "8" >>, << "0", "0", "8" >>, << "1", "3" >> }
Days == { << "2", "7" >>, << "0", "3", "1" >>, << "0" >> }
Times == { <<>>, << "_", "0", "7", "_", "2", "4", "_", "4", "7" >> }
SideTags == { << "_", "L" >>, << "_", "M" >>, << "_", "l" >>, << "-", "R" >>, <<>> }
Suffixes == { <<>>, << "_", "p", "r", "o", "c", "e", "s", "s", "e", "d" >> }
DatedNames ==
    { y \o << "_" >> \o m \o << "_" >> \o d \o t \o g \o x \o << ".csv" >> :
        y \in Years, m \in Months, d \in Days, t \in Times, g \in SideTags, x \in Suffixes }
NameInputs ==
    DatedNames \cup { << "L" >> \o x : x \in Suffixes \ { <<>> } }
               \cup { << "d", "a", "t", "a", ".csv" >> }

NameInit ==
    /\ NoiseIdle
    /\ selected_files \in { << name >> : name \in NameInputs }
    /\ entry = "none"
    /\ data_source = EmptyMap
    /\ distance_from_entrance = 0
    /\ pc = "idle"
    /\ idx = 0
    /\ success_files = <<>>
    /\ error_files = <<>>
    /\ generated_files = EmptyMap
    /\ temp_files = {}
    /\ output = EmptyMap
    /\ generated_vtk_files = EmptyMap
    /\ LmrIdle
    /\ VtkIdle
    /\ SurveyIdle

\* converter.generate_vtk_filename(file_name)
GenerateVtkFilename ==
    /\ lmr_ret.op = "none" /\ selected_files # <<>>
    /\ lmr_ret' = Call("generate_vtk_filename", [csv_file |-> selected_files[1]],
                       [filename |-> generate_vtk_filename(selected_files[1])])
    /\ UNCHANGED <<converter, coords_log, vtkVars, surveyVars, batchVars, noiseVars>>

NameNext == GenerateVtkFilename

NameSpec == NameInit /\ [][NameNext]_vars

\* the side letter the name shows, else "X"
SideLetter(name) == IF detect_lmr_type(name) = None THEN "X" ELSE detect_lmr_type(name)
\* the first three underscore-separated tokens are a year of four digits, a month
\* from 1 to 12 and a day from 1 to 31
NameTokens(name) == Split(SplitExt(name), "_")
ValidDate(parts) ==
    /\ Len(parts) >= 3
    /\ Len(parts[1]) = 4 /\ IsDigits(parts[1])
    /\ parts[2] # <<>> /\ IsDigits(parts[2]) /\ DigitsValue(parts[2]) \in 1..12
    /\ parts[3] # <<>> /\ IsDigits(parts[3]) /\ DigitsValue(parts[3]) \in 1..31
\* a number below 100 in two digits
TwoDigits(n) == << DigitChars[(n \div 10) + 1], DigitChars[(n % 10) + 1] >>
Placeholder == << "0", "0", ".", "0", "0", ".", "0", "0" >>
DrillName(side, date) == << "Drill-", side, "_ana_" >> \o date \o << ".vtk" >>
Example == << "2", "0", "2", "5", "_", "0", "8", "_", "2", "7", "_", "0", "7", "_", "2", "4", "_", "4", "7", "_", "L" >>
Processed == << "_", "p", "r", "o", "c", "e", "s", "s", "e", "d" >>
ExampleDate == << "2", "5", ".", "0", "8", ".", "2", "7" >>
\* the three examples of the naming convention
Examples ==
    /\ lmr_ret.args.csv_file = Example \o << ".csv" >>
          => lmr_ret.result.filename = DrillName("L", ExampleDate)
    /\ lmr_ret.args.csv_file = Example \o Processed \o << ".csv" >>
          => lmr_ret.result.filename = DrillName("L", ExampleDate)
    /\ lmr_ret.args.csv_file = << "L" >> \o Processed
          => lmr_ret.result.filename = DrillName("L", Placeholder)

AtLeastTwo(token) == IF Len(token) < 2 THEN << "0" >> \o token ELSE token

DateField(filename) == SubSeq(filename, 4, Len(filename) - 1)
Framed(filename) ==
    /\ Len(filename) >= 5
    /\ filename[1] = "Drill-" /\ filename[2] \in { "L", "M", "R", "X" } /\ filename[3] = "_ana_"
    /\ filename[Len(filename)] = ".vtk"
\* a date field of three digit groups; wide says whether month and day may have
\* more than two digits
DateShape(date, wide) ==
    LET f == Split(date, ".")
    IN  /\ Len(f) = 3
        /\ \A i \in 1..3 : f[i] # <<>> /\ IsDigits(f[i])
        /\ Len(f[1]) = 2
        /\ IF wide THEN Len(f[2]) >= 2 /\ Len(f[3]) >= 2 ELSE Len(f[2]) = 2 /\ Len(f[3]) = 2
        /\ \/ date = Placeholder
           \/ DigitsValue(f[2]) \in 1..12 /\ DigitsValue(f[3]) \in 1..31

Companion(csv, vtk, lmr_type, distance, last) ==
    /\ csv.kind = "csv" /\ vtk.kind = "vtk"
    /\ csv.lmr_type = lmr_type /\ csv.distance = distance
    /\ csv.header = << "X(m)", "Y(m)", ElevationColumn, last >>
    /\ Len(csv.rows) = Len(vtk.points)
    /\ \A i \in 1..Len(vtk.points) : csv.rows[i] = << vtk.points[i], vtk.energy[i] >>
Converted == lmr_ret.op = "convert_csv_to_vtk" /\ lmr_ret.result.raised = "none"

\* C22 as stated: the companion CSV of a conversion has a comment line with the
\* side and the distance, the header X(m), Y(m), Z:elevation(m), <name>, where
\* <name> is the scalar field name used in the VTK file, and one row for each
\* trajectory point, in point order, with its x, y, z and scalar.
C22_CompanionCsv ==
    Converted =>
        Companion(lmr_ret.result.output[ConvertedPaths.csv], lmr_ret.result.output[ConvertedPaths.vtk],
                  lmr_ret.args.lmr_type, lmr_ret.args.distance,
                  lmr_ret.result.output[ConvertedPaths.vtk].scalar_name)

\* C22, amended: the same, with the last column named by the fixed text
\* "drilling energy" of save_computed_csv, which is not the name Energy of the
\* scalar array of the VTK file.
C22_CompanionCsvFixedColumn ==
    Converted =>
        /\ Companion(lmr_ret.result.output[ConvertedPaths.csv], lmr_ret.result.output[ConvertedPaths.vtk],
                     lmr_ret.args.lmr_type, lmr_ret.args.distance, DrillingEnergyColumn)
        /\ lmr_ret.result.output[ConvertedPaths.vtk].scalar_name = "Energy"
C22_Witness ==
    /\ Converted
    /\ lmr_ret.args.df = Frame(<< "Length", "Lowess_Trend" >>, << TRUE, TRUE, TRUE >>)
    /\ Len(lmr_ret.result.output[ConvertedPaths.csv].rows) = 3
    /\ lmr_ret.result.output[ConvertedPaths.csv].rows[3][1]
          = lmr_ret.result.output[ConvertedPaths.vtk].points[3]
    /\ lmr_ret.result.output[ConvertedPaths.csv].header[4] # "Energy"

(***************************************************************************)
(* The VTK page as a whole: the settings block reads the survey point and  *)
(* computes the distance, then the generate button runs the batch. The     *)
(* session may hold the generated-files map of an earlier run.             *)
(***************************************************************************)
\* the texts parse_survey_point rejects, and three it accepts: 1238 m from the
\* entrance, the reference point itself, and a point before the entrance
Malformed == { t \in Texts : parse_survey_point(t).status # "ok" }
Accepted == { << "1", "9", "3", "+", "6" >>, << "2", "5", "5", "+", "4" >>, << "2", "6", "0", "+", "0" >> }
\* a frame with one sample only, which convert_csv_to_vtk rejects
ShortFrame == Frame(<< "Length", "Lowess_Trend" >>, << TRUE >>)
PageSelections == { <<>>, << FileOf(<< "M" >>) >>, << FileOf(<< "L" >>) >>,
                    << FileOf(<< "L" >>), FileOf(<< "M" >>) >> }
PageData == [f \in FileNames |-> IF f = FileOf(<< "L" >>) THEN ShortFrame ELSE GoodFrame]
\* what an earlier run of app.py on the R file alone left: the stored map and
\* the output directory
EarlierRun ==
    Iteration([converter |-> VTKConverter(NoLmrConfig), success_files |-> <<>>, error_files |-> <<>>,
               generated_files |-> EmptyMap, temp_files |-> {}, output |-> EmptyMap],
              "app", FileOf(<< "R" >>), GoodFrame, 12380)
\* a distance in tenths of a metre
Tenths(v) == IF v < 0 THEN -(Abs(v) \div (Unit \div 10)) ELSE v \div (Unit \div 10)

PageInit ==
    /\ NoiseIdle
    /\ \/ /\ survey_point_str \in Malformed
          /\ entry \in { "app", "ui" }
          /\ selected_files \in { <<>>, << FileOf(<< "M" >>) >> }
          /\ survey_calc = SurveyPointCalculator(NoConfig)
          /\ generated_vtk_files = EmptyMap /\ output = EmptyMap
       \/ /\ survey_point_str \in Accepted
          /\ entry \in { "app", "ui" }
          /\ selected_files \in PageSelections
          /\ survey_calc \in { SurveyPointCalculator(config) : config \in Configs }
          /\ \/ generated_vtk_files = EmptyMap /\ output = EmptyMap
             \/ /\ entry = "app"
                /\ generated_vtk_files = EarlierRun.generated_files
                /\ output = EarlierRun.output
    /\ data_source = PageData
    /\ distance_from_entrance = 0
    /\ survey = [status |-> "none", c_value |-> 0, e_value |-> 0]
    /\ survey_given = NoPoint
    /\ survey_distance = NoDistance
    /\ shown = "none"
    /\ pc = "idle"
    /\ idx = 0
    /\ success_files = <<>>
    /\ error_files = <<>>
    /\ generated_files = EmptyMap
    /\ temp_files = {}
    /\ LmrIdle
    /\ VtkIdle

\* the settings block: parse the survey point and compute the distance; on
\* ValueError the error is shown and the distance is 0 (src/ui/vtk.py warns,
\* without parsing, when the text is empty)
ReadSurveyPoint ==
    /\ shown = "none" /\ pc = "idle"
    /\ IF entry = "ui" /\ survey_point_str = <<>>
       THEN /\ shown' = "warning"
            /\ distance_from_entrance' = 0
            /\ UNCHANGED <<survey, survey_distance, noiseVars>>
       ELSE /\ survey' = parse_survey_point(survey_point_str)
            /\ IF survey'.status = "ok"
               THEN /\ survey_distance' =
                          [called |-> TRUE,
                           value |-> calculate_distance_from_entrance(survey_calc, survey'.c_value, survey'.e_value)]
                    /\ distance_from_entrance' = Tenths(survey_distance'.value)
                    /\ shown' = "success"
               ELSE /\ survey_distance' = NoDistance
                    /\ distance_from_entrance' = 0
                    /\ shown' = "error"
    /\ UNCHANGED <<survey_point_str, survey_calc, survey_given, entry, data_source, selected_files,
                   pc, idx, success_files, error_files, generated_files, temp_files, output,
                   generated_vtk_files, vtkVars, lmrVars, noiseVars>>

PageNext == ReadSurveyPoint \/ GenerateVtkFiles \/ ConvertFile \/ ShowResults

PageSpec == PageInit /\ [][PageNext]_vars

\* C23: a survey-point text that does not parse is surfaced at once and never
\* leads to a conversion: the distance is 0, the error is shown, the parse is
\* not made again, and the batch runs only with at least one file selected and
\* a distance from the entrance strictly greater than 0.
C23_MalformedSurveyPoint ==
    /\ (shown # "none" /\ ~WellFormed(survey_point_str)) =>
          /\ distance_from_entrance = 0
          /\ shown = (IF entry = "ui" /\ survey_point_str = <<>> THEN "warning" ELSE "error")
          /\ ~survey_distance.called
          /\ pc = "idle" /\ output = EmptyMap /\ temp_files = {}
    /\ pc # "idle" => selected_files # <<>> /\ distance_from_entrance > 0
C23_Witness ==
    /\ survey_point_str = << "1", "+", "+", "5" >>
    /\ shown = "error" /\ survey = FormatError
    /\ selected_files # <<>>
    /\ distance_from_entrance = 0

\* C24: when convert_csv_to_vtk fails because fewer than 2 valid samples were
\* read, neither the VTK file nor the companion CSV has been created or modified
\* at the output paths: the output directory is as it was before the call
\* (empty).
C24_NoOutputOnFailure ==
    (/\ lmr_ret.op = "convert_csv_to_vtk"
     /\ read_csv_data(to_csv(lmr_ret.args.df)).raised = "none"
     /\ Len(Retained(lmr_ret.args.df)) < 2
     /\ lmr_ret.result.raised # "none")
        => lmr_ret.result.output = EmptyMap

(***************************************************************************)
(* One VTKSimpleRenderer parsing one file after another.                   *)
(***************************************************************************)
MaxParses == 2
\* the files handed to the reader: files of another tool with two or three
\* numbers to a line, with or without a LINES block and a SCALARS block (array Temp),
\* and a file of the text emitter (array Energy)
ReaderFiles ==
    { [file |-> RawFile(p), origin |-> Origin("env", <<>>, <<>>, p)] :
        p \in { q \in RawParams : q.hdr /\ q.junk = 0 /\ q.w \in { 2, 3 } /\ q.n = Len(q.pts) } }
    \cup { [file |-> create_simple_vtk_file(RawPoints(2), EnergyList(2)),
            origin |-> Origin("text", RawPoints(2), EnergyList(2), NoRaw)] }

\* renderer = VTKSimpleRenderer()
ReaderInit ==
    /\ NoiseIdle
    /\ VTK_AVAILABLE = FALSE
    /\ file = NoFile /\ origin = Origin("none", <<>>, <<>>, NoRaw)
    /\ ret = Ret("none", 0, "none", FALSE)
    /\ points = FreshReader.points
    /\ lines = FreshReader.lines
    /\ scalars = FreshReader.scalars
    /\ SurveyIdle
    /\ BatchIdle
    /\ LmrIdle

\* renderer.parse_vtk_file(vtk_path) on the renderer as the calls before left it
ParseVtkFile ==
    /\ ret.n < MaxParses
    /\ \E f \in ReaderFiles :
          LET r == parse_vtk_file([points |-> points, lines |-> lines, scalars |-> scalars,
                                   result |-> FALSE, raised |-> "none"], f.file)
          IN  /\ file' = f.file
              /\ origin' = f.origin
              /\ points' = r.points
              /\ lines' = r.lines
              /\ scalars' = r.scalars
              /\ ret' = Ret("parse_vtk_file", ret.n + 1, r.raised, r.result)
    /\ UNCHANGED <<VTK_AVAILABLE, surveyVars, batchVars, lmrVars, noiseVars>>

ReaderNext == ParseVtkFile

ReaderSpec == ReaderInit /\ [][ReaderNext]_vars

\* C25: after any sequence of parse_vtk_file calls on one renderer, if the last
\* call returned True then points, lines and scalars are those of the last parsed
\* file alone, as a fresh renderer would hold them: no polyline and no scalar
\* array of an earlier file remains.
C25_NoStaleReaderState ==
    (ret.op = "parse_vtk_file" /\ ret.result) =>
        /\ points = parse_vtk_file(FreshReader, file).points
        /\ lines = parse_vtk_file(FreshReader, file).lines
        /\ scalars = parse_vtk_file(FreshReader, file).scalars

\* C26: after a run of the batch the stored map generated_vtk_files holds
\* exactly the files that succeeded in that run; after a run in which every
\* selected file failed, no entry of an earlier run is still stored.
C26_StoredMapIsLastRun ==
    pc = "done" =>
        /\ DOMAIN generated_vtk_files = Range(success_files)
        /\ \A f \in Range(success_files) : generated_vtk_files[f] = generated_files[f]

\* C27: every temporary CSV file made for a selected file during the batch has
\* been deleted when the loop is over, whether the conversion of that file
\* succeeded or raised an error.
C27_NoTempFileLeft ==
    pc = "done" => temp_files = {}

(***************************************************************************)
(* VTKGenerator.create_from_dataframe: sampling, coordinates, energies.    *)
(* A frame is its column names and its rows, each row one cell for each    *)
(* column; the frames of the model have the coordinate columns or none of  *)
(* them and no TD column (the spiral of the TD fallback is not modelled).  *)
(***************************************************************************)
\* next((col for col in candidates if col in df.columns), None)
FirstColumn(candidates, columns) ==
    LET found == { i \in 1..Len(candidates) : \E j \in 1..Len(columns) : columns[j] = candidates[i] }
    IN  IF found = {} THEN None ELSE candidates[CHOOSE i \in found : \A j \in found : i <= j]
ColumnIndex(columns, name) == CHOOSE j \in 1..Len(columns) : columns[j] = name
x_cols == << "X", "X(m)", "x", "x:TD(m)" >>
y_cols == << "Y", "Y(m)", "y", "y:CL<U+5DEE>(m)" >>
z_cols == << "Z", "Z(m)", "z", ElevationColumn, "z:SL<U+5DEE>(m)", "Z_SL" >>
energy_cols == << DrillingEnergyColumn, "<U+30A8 U+30CD U+30EB U+30AE U+30FC>", "Energy", "Ene-M" >>

\* df.iloc[::sampling_interval].reset_index(drop=True), taken when the interval
\* is greater than 1
Sampled(df, sampling_interval) ==
    IF sampling_interval > 1
    THEN [columns |-> df.columns,
          rows |-> [i \in 1..((Len(df.rows) + sampling_interval - 1) \div sampling_interval) |->
                       df.rows[(i - 1) * sampling_interval + 1]]]
    ELSE df

\* VTKGenerator._extract_coordinates: the rows with all three coordinates
extract_coordinates(df) ==
    LET x_col == FirstColumn(x_cols, df.columns)
        y_col == FirstColumn(y_cols, df.columns)
        z_col == FirstColumn(z_cols, df.columns)
    IN  IF x_col = None \/ y_col = None \/ z_col = None
        THEN [raised |-> "ValueError", points |-> <<>>]
        ELSE LET Whole(row) == /\ ~row[ColumnIndex(df.columns, x_col)].nan
                               /\ ~row[ColumnIndex(df.columns, y_col)].nan
                               /\ ~row[ColumnIndex(df.columns, z_col)].nan
                 whole == SelectSeq(df.rows, Whole)
             IN  [raised |-> "none",
                  points |-> [i \in 1..Len(whole) |->
                                 << whole[i][ColumnIndex(df.columns, x_col)].v,
                                    whole[i][ColumnIndex(df.columns, y_col)].v,
                                    whole[i][ColumnIndex(df.columns, z_col)].v >>]]

\* VTKGenerator._extract_energy_values: one value for each row (0.0 for a missing
\* one, and for every row when no energy column is found: with Ene-M among the
\* candidates the mean of Ene-L, Ene-M, Ene-R is never taken), cut to the number
\* of points
extract_energy_values(df, n_points) ==
    LET energy_col == FirstColumn(energy_cols, df.columns)
        all == [i \in 1..Len(df.rows) |->
                   IF energy_col = None \/ df.rows[i][ColumnIndex(df.columns, energy_col)].nan THEN 0
                   ELSE df.rows[i][ColumnIndex(df.columns, energy_col)].v]
    IN  SubSeq(all, 1, Min(Len(all), n_points))

\* VTKGenerator.create_from_dataframe
create_from_dataframe(df, sampling_interval, include_energy) ==
    LET sampled == Sampled(df, sampling_interval)
        c == extract_coordinates(sampled)
    IN  IF c.raised # "none"
        THEN [raised |-> c.raised, points |-> <<>>, energy_values |-> <<>>, out |-> NoFile]
        ELSE LET energy_values == IF include_energy
                                  THEN extract_energy_values(sampled, Len(c.points)) ELSE <<>>
             IN  [raised |-> "none", points |-> c.points, energy_values |-> energy_values,
                  out |-> create_vtk_polydata(c.points, energy_values).out]

\* the rows of the frames: row i has the coordinates (i, -i/2, 17.3) and the
\* energy 100 + 2.5 i, or lacks its X
GenRow(i, whole) == << IF whole THEN Number(10 * i) ELSE NaN, Number(-5 * i), Number(173), Number(1000 + 25 * i) >>
GenFrame(columns, wholes) == [columns |-> columns, rows |-> [i \in 1..Len(wholes) |-> GenRow(i, wholes[i])]]
GenColumns == { << "X", "Y", "Z", "Energy" >>, << "X", "Y", "Z", "E" >>, << "A", "B", "C", "Energy" >> }
GenFrames == { GenFrame(columns, wholes) : columns \in GenColumns, wholes \in SeqsUpTo(BOOLEAN, MaxRows) }
SamplingIntervals == 1..MaxRows

GeneratorInit ==
    /\ NoiseIdle
    /\ VtkIdle
    /\ SurveyIdle
    /\ BatchIdle
    /\ LmrIdle

\* generator.create_from_dataframe(df, sampling_interval, include_energy)
CreateFromDataframe ==
    /\ lmr_ret.op = "none"
    /\ \E df \in GenFrames, sampling_interval \in SamplingIntervals, include_energy \in BOOLEAN :
          lmr_ret' = Call("create_from_dataframe",
                          [df |-> df, sampling_interval |-> sampling_interval,
                           include_energy |-> include_energy],
                          create_from_dataframe(df, sampling_interval, include_energy))
    /\ UNCHANGED <<converter, coords_log, vtkVars, surveyVars, batchVars, noiseVars>>

GeneratorNext == CreateFromDataframe

GeneratorSpec == GeneratorInit /\ [][GeneratorNext]_vars

\* rows 0, k, 2k, ... of a frame, and those of them that have their X
EveryKth(rows, k) == [i \in 1..((Len(rows) + k - 1) \div k) |-> rows[(i - 1) * k + 1]]
WithX(rows) == SelectSeq(rows, LAMBDA row : ~row[1].nan)

\* C28: in create_from_dataframe with sampling interval k the retained rows are
\* rows 0, k, 2k, ... in order, as many scalars are written as points, and the
\* i-th scalar is of the same data row as the i-th point, also when a retained
\* row lacks a coordinate and gives no point.
C28_ScalarsFollowPoints ==
    (/\ lmr_ret.op = "create_from_dataframe"
     /\ lmr_ret.args.df.columns = << "X", "Y", "Z", "Energy" >>
     /\ lmr_ret.args.include_energy) =>
        LET kept == WithX(EveryKth(lmr_ret.args.df.rows, lmr_ret.args.sampling_interval))
        IN  /\ lmr_ret.result.raised = "none"
            /\ Sampled(lmr_ret.args.df, lmr_ret.args.sampling_interval).rows
                  = EveryKth(lmr_ret.args.df.rows, lmr_ret.args.sampling_interval)
            /\ Len(lmr_ret.result.energy_values) = Len(lmr_ret.result.points)
            /\ Len(lmr_ret.result.points) = Len(kept)
            /\ \A i \in 1..Len(kept) :
                  /\ lmr_ret.result.points[i] = << kept[i][1].v, kept[i][2].v, kept[i][3].v >>
                  /\ lmr_ret.result.energy_values[i] = kept[i][4].v

(***************************************************************************)
(* NoiseRemover.process_multiple_files.  A frame is its column names and   *)
(* its number of rows; the smoothing itself is not computed: the result of *)
(* a file is the frame with the columns apply_lowess adds.  The Japanese   *)
(* column names are spelled by their code points.                          *)
(***************************************************************************)
MaxFiles == 3
LengthColumn == "<U+7A7F U+5B54 U+9577>"
\* the number of valid values under which apply_lowess copies the column
MinLowess == 10

NoResult == [ok |-> FALSE, columns |-> <<>>, n |-> 0]
HasColumn(columns, name) == \E j \in 1..Len(columns) : columns[j] = name
\* NoiseRemover.apply_lowess with target_column the drilling energy: Lowess_Trend
\* is added, and Noise unless there are fewer than 10 values
apply_lowess(df) ==
    [ok |-> TRUE,
     columns |-> df.columns \o (IF df.n < MinLowess THEN << "Lowess_Trend" >>
                                ELSE << "Lowess_Trend", "Noise" >>),
     n |-> df.n]
\* NoiseRemover._process_single_file: None without the length column, and when
\* apply_lowess raises (no energy column)
process_single_file(df) ==
    IF ~HasColumn(df.columns, LengthColumn) THEN NoResult
    ELSE IF ~HasColumn(df.columns, DrillingEnergyColumn) THEN NoResult
    ELSE apply_lowess(df)

\* name.replace('.csv', '')
BaseName(name) == SelectSeq(name, LAMBDA c : c # ".csv")
\* df.empty
IsEmpty(df) == df.columns = <<>> \/ df.n = 0
\* data[ordered_cols] with the file name put before each column name
Extracted(name, data) ==
    LET ordered_cols == SelectSeq(<< LengthColumn, DrillingEnergyColumn, "Lowess_Trend" >>,
                                  LAMBDA col : HasColumn(data.columns, col))
    IN  [columns |-> [j \in 1..Len(ordered_cols) |-> << BaseName(name), ordered_cols[j] >>],
         n |-> data.n]
\* pd.concat([combined_data, extracted_data], axis=1)
Concat(a, b) == [columns |-> a.columns \o b.columns, n |-> IF a.n > b.n THEN a.n ELSE b.n]
\* NoiseRemover._create_combined_data over the results in the order of the dict
RECURSIVE CombineFrom(_, _, _)
CombineFrom(results, k, combined) ==
    IF k > Len(results) THEN combined
    ELSE LET extracted == Extracted(results[k].name, results[k].result)
         IN  CombineFrom(results, k + 1,
                         IF extracted.columns = <<>> THEN combined
                         ELSE IF IsEmpty(combined) THEN extracted
                         ELSE Concat(combined, extracted))
create_combined_data(results) == CombineFrom(results, 1, EmptyFrame)

\* individual_results[name] = result
SetResult(results, name, result) ==
    IF \E j \in 1..Len(results) : results[j].name = name
    THEN [j \in 1..Len(results) |-> IF results[j].name = name THEN [name |-> name, result |-> result]
                                    ELSE results[j]]
    ELSE Append(results, [name |-> name, result |-> result])
\* the sequential loop over data_dict.items() from position k
RECURSIVE SequentialFrom(_, _, _)
SequentialFrom(items, k, results) ==
    IF k > Len(items) THEN results
    ELSE SequentialFrom(items, k + 1,
                        IF process_single_file(items[k].df).ok
                        THEN SetResult(results, items[k].name, process_single_file(items[k].df))
                        ELSE results)

\* the files: three with both columns (one of them with no rows, one short),
\* one without the length column
NoiseFiles ==
    { [name |-> << "L", ".csv" >>, df |-> [columns |-> << LengthColumn, DrillingEnergyColumn >>, n |-> 12]],
      [name |-> << "M", ".csv" >>, df |-> [columns |-> << LengthColumn, DrillingEnergyColumn >>, n |-> 3]],
      [name |-> << "R", ".csv" >>, df |-> [columns |-> << "TD", DrillingEnergyColumn >>, n |-> 12]],
      [name |-> << "E", ".csv" >>, df |-> [columns |-> << LengthColumn, DrillingEnergyColumn >>, n |-> 0]] }
DataDicts ==
    { d \in SeqsUpTo(NoiseFiles, MaxFiles) : \A i \in 1..Len(d) : \A j \in 1..Len(d) : i # j => d[i].name # d[j].name }

NoiseInit ==
    /\ data_dict \in DataDicts
    /\ use_parallel \in BOOLEAN
    /\ futures = {}
    /\ individual_results = <<>>
    /\ combined_data = EmptyFrame
    /\ noise_pc = "start"
    /\ VtkIdle
    /\ SurveyIdle
    /\ BatchIdle
    /\ LmrIdle

\* use_parallel and more than one file: every file is submitted to the pool
Submit ==
    /\ noise_pc = "start"
    /\ use_parallel /\ Len(data_dict) > 1
    /\ futures' = { data_dict[k].name : k \in 1..Len(data_dict) }
    /\ noise_pc' = "parallel"
    /\ UNCHANGED <<data_dict, use_parallel, individual_results, combined_data,
                   vtkVars, surveyVars, batchVars, lmrVars>>

\* as_completed hands over a task that is done, whichever it is
Completed ==
    /\ noise_pc = "parallel"
    /\ \E k \in 1..Len(data_dict) :
          /\ data_dict[k].name \in futures
          /\ futures' = futures \ { data_dict[k].name }
          /\ individual_results' =
                IF process_single_file(data_dict[k].df).ok
                THEN SetResult(individual_results, data_dict[k].name, process_single_file(data_dict[k].df))
                ELSE individual_results
          /\ noise_pc' = IF futures' = {} THEN "collected" ELSE "parallel"
    /\ UNCHANGED <<data_dict, use_parallel, combined_data, vtkVars, surveyVars, batchVars, lmrVars>>

\* the sequential loop
Sequential ==
    /\ noise_pc = "start"
    /\ ~(use_parallel /\ Len(data_dict) > 1)
    /\ individual_results' = SequentialFrom(data_dict, 1, <<>>)
    /\ noise_pc' = "collected"
    /\ UNCHANGED <<data_dict, use_parallel, futures, combined_data,
                   vtkVars, surveyVars, batchVars, lmrVars>>

\* combined_data = self._create_combined_data(individual_results), and the return
CreateCombinedData ==
    /\ noise_pc = "collected"
    /\ combined_data' = create_combined_data(individual_results)
    /\ noise_pc' = "done"
    /\ UNCHANGED <<data_dict, use_parallel, futures, individual_results,
                   vtkVars, surveyVars, batchVars, lmrVars>>

NoiseNext == Submit \/ Completed \/ Sequential \/ CreateCombinedData

NoiseSpec == NoiseInit /\ [][NoiseNext]_vars

\* a dict as the set of its items
Items(results) == { results[j] : j \in 1..Len(results) }

\* C29: whatever the order in which the tasks complete, process_multiple_files
\* returns in parallel mode the per-file results and the combined table, the
\* order of its columns included, that it returns in sequential mode; a file
\* whose task fails is the only one missing from the results.
C29_ParallelAsSequential ==
    noise_pc = "done" =>
        /\ Items(individual_results) = Items(SequentialFrom(data_dict, 1, <<>>))
        /\ combined_data = create_combined_data(SequentialFrom(data_dict, 1, <<>>))
        /\ { r.name : r \in Items(individual_results) }
              = { data_dict[k].name : k \in { j \in 1..Len(data_dict) : process_single_file(data_dict[j].df).ok } }

\* the six coordinates of a row
SixOf(coords) == << coords.L_X, coords.L_Y, coords.M_X, coords.M_Y, coords.R_X, coords.R_Y >>

\* C30: calculate_batch called with the default direction angle for every
\* distance and without a reference distance returns one row for each distance,
\* in input order, with the six coordinates of calculate_coordinates(distance).
C30_BatchAsSingle ==
    (lmr_ret.op = "calculate_batch" /\ ~lmr_ret.args.reference_distance.given) =>
        /\ Len(lmr_ret.result.rows) = Len(lmr_ret.args.distances)
        /\ \A i \in 1..Len(lmr_ret.args.distances) :
              /\ lmr_ret.result.rows[i].distance = lmr_ret.args.distances[i]
              /\ SixOf(lmr_ret.result.rows[i])
                    = SixOf(calculate_coordinates(converter.calculator, lmr_ret.args.distances[i],
                                                  NoArg, NoArg).coords)

====
